---- MODULE Spec2Model ----
(***************************************************************************)
(* State-machine model of the yen-wizard inventory application: the       *)
(* pricing formulas of types/inventory.ts and the three store hooks that  *)
(* apply them (useStore: in-memory state mirrored to localStorage;        *)
(* useCloudStore and useSupabaseStore: rows of a remote database, with    *)
(* the in-memory copy refreshed by fetchData).                            *)
(*                                                                         *)
(* Numbers.  costPriceCNY is held in hundredths of a yuan (50.00 is 5000), *)
(* the step of the cost inputs; exchangeRate and the JPY amounts are      *)
(* whole numbers.  platformFeeRate is held in percent (0.22 is 22), as    *)
(* the settings form enters it.  The formulas compute in IEEE 754 double  *)
(* arithmetic as JavaScript does: each product, sum, difference and       *)
(* quotient is rounded to the nearest double.                             *)
(*                                                                         *)
(* Records.  An inventory item carries quantity as its plain attribute    *)
(* and an order carries createdAt and completedAt; photo, productName,    *)
(* color and size are copied by the same statements as these and are not  *)
(* represented.  A collection is a function from the ids it holds to the  *)
(* records (the order of an array is not represented).                    *)
(*                                                                         *)
(* Every handler is one action: it reads the state its closure holds,     *)
(* makes its one persistence write and sets state.  The sweep of          *)
(* recalculateAllPrices is taken here without other handlers between its  *)
(* writes.                                                                 *)
(***************************************************************************)
EXTENDS Integers, Sequences, FiniteSets, TLC

\* ------------------------------------------------------------------------
\* Bounds of the model
\* ------------------------------------------------------------------------
\* how many items (inventory items and orders together) are created in a run
MaxItems == 1
\* how many persistence writes fail in a run
MaxFaults == 1
\* how many fetchData calls are under way at a time
MaxFetches == 2
\* how many database writes a cloud hook makes before the fetchData that the
\* realtime notification starts has refreshed its memory
MaxUnseen == 1

\* the stores of the run: both exist when the hook mounts
StoreIds == {1, 2}
InventoryIds == 1..MaxItems
OrderIds == 1..MaxItems
\* activeStoreId === null
NoStore == 0

\* input values the operations are called with
\* (derived: a value a caller may supply for a derived field)
Inputs ==
    [ costPriceCNY |-> {5000, 10000},
      quantity |-> {1, 2},
      actualPayment |-> {3000, 4000},
      exchangeRate |-> {23, 25},
      platformFeeRate |-> {22},
      derived |-> {1} ]
\* new Date().toISOString() at the call, an explicit date, and no date
Now == "now"
Dates == {"d1"}
NoDate == ""
OptDates == Dates \cup {NoDate}

\* ------------------------------------------------------------------------
\* types/inventory.ts
\* ------------------------------------------------------------------------
defaultSettings ==
    [ exchangeRate |-> 23,
      internationalShipping |-> 1000,
      domesticShipping |-> 1000,
      targetProfit |-> 6000,
      platformFeeRate |-> 22 ]

DefaultShipping == 1000

\* A JavaScript number is an IEEE 754 double.  A double that an operation of
\* the formulas yields lies next to a decimal value K/100; it is held as
\* [K, a], standing for (K + a * U) / 100 with U = 2^(Exponent(K) - 52), the
\* distance between neighbouring doubles at K/100.  a = 0 says the double is
\* the decimal value itself, as it is for every whole number.
Double(K, a) == [ K |-> K, a |-> a ]

Abs(n) == IF n < 0 THEN -n ELSE n

\* floor(log2(|K| / 100)) for K # 0
Exponent(K) ==
    IF Abs(K) >= 100
    THEN CHOOSE e \in 0..20 : 100 * 2^e <= Abs(K) /\ Abs(K) < 200 * 2^e
    ELSE CHOOSE e \in -8..-1 :
            100 <= Abs(K) * 2^(-e) /\ Abs(K) * 2^(-e) < 200

\* 2^j modulo 200, for j >= 3
TwoPowerMod200(j) == 8 * ((2^((j - 3) % 20)) % 25)

\* an offset of a units at exponent E, as the fraction num/den of the unit at
\* exponent E2
Rescale(a, E, E2) ==
    IF E2 >= E THEN [ num |-> a, den |-> 2^(E2 - E) ]
               ELSE [ num |-> a * 2^(E - E2), den |-> 1 ]

\* round to nearest, ties to even: the double nearest to
\* (K + (num/den) * U) / 100.  The doubles at K/100 are the offsets a with
\* K * 2^(52 - Exponent(K)) + a divisible by 100, and the mantissa is even
\* where that sum is divisible by 200.  A whole number (below 2^53) is a
\* double.
RoundToDouble(K, num, den) ==
    IF K % 100 = 0 /\ num = 0 THEN Double(K, 0)
    ELSE
    LET t200 == ((K % 200) * TwoPowerMod200(52 - Exponent(K))) % 200
        t == t200 % 100
        lo == 100 * ((num + t * den) \div (100 * den)) - t
        hi == lo + 100
        below == num - lo * den
        above == hi * den - num
    IN  Double(K, IF below < above THEN lo
                  ELSE IF above < below THEN hi
                  ELSE IF (t200 + lo) % 200 = 0 THEN lo ELSE hi)

\* the number a decimal with two places denotes (parseFloat, Number)
ToDouble(K) == RoundToDouble(K, 0, 1)

\* x * r for a whole number r
Times(x, r) ==
    IF x.K = 0 \/ r = 0 THEN Double(0, 0)
    ELSE IF x.a = 0 /\ x.K % 100 = 0 THEN Double(x.K * r, 0)
    ELSE LET K2 == x.K * r
             o == Rescale(x.a * r, Exponent(x.K), Exponent(K2))
         IN  RoundToDouble(K2, o.num, o.den)

\* x + s for a whole number s
Plus(x, s) ==
    LET K2 == x.K + 100 * s
    IN  IF x.K = 0 \/ K2 = 0 \/ (x.a = 0 /\ x.K % 100 = 0) THEN Double(K2, 0)
        ELSE LET o == Rescale(x.a, Exponent(x.K), Exponent(K2))
             IN  RoundToDouble(K2, o.num, o.den)

\* 1 - platformFeeRate for the rate percent / 100, percent < 100
OneMinus(percent) ==
    LET y == ToDouble(percent)
        K2 == 100 - percent
    IN  IF percent = 0 THEN Double(K2, 0)
        ELSE LET o == Rescale(-y.a, Exponent(percent), Exponent(K2))
             IN  RoundToDouble(K2, o.num, o.den)

\* Math.ceil(n / d) of whole numbers, d > 0
Ceil(n, d) == IF n % d = 0 THEN n \div d ELSE (n \div d) + 1

\* Math.ceil(x)
CeilOf(x) ==
    IF x.K % 100 # 0 THEN Ceil(x.K, 100)
    ELSE (x.K \div 100) + (IF x.a > 0 THEN 1 ELSE 0)

\* Math.ceil(x / d): where the quotient of the decimal values is a whole
\* number q, the double quotient lies above q when the rounding errors of x
\* and d together exceed half the distance between the doubles at q
CeilOfQuotient(x, d) ==
    IF x.K % d.K # 0 THEN Ceil(x.K, d.K)
    ELSE
    LET q == x.K \div d.K
    IN  IF q = 0 THEN 0
        ELSE
        LET Ex == Exponent(x.K)
            Ed == Exponent(d.K)
            Eq == Exponent(100 * q)
            m == IF Ex < Ed THEN (IF Ex < Eq THEN Ex ELSE Eq)
                 ELSE (IF Ed < Eq THEN Ed ELSE Eq)
        IN  IF 2 * (x.a * 2^(Ex - m) - d.a * q * 2^(Ed - m)) > d.K * 2^(Eq - m)
            THEN q + 1 ELSE q

\* variant: the fee is taken off the total instead of the total being
\* divided by what the fee leaves
Discounted_calculateSellingPrice(costCNY, s) ==
    Ceil((costCNY * s.exchangeRate
            + 100 * (s.internationalShipping + s.domesticShipping + s.targetProfit))
         * (100 - s.platformFeeRate), 10000)

\* variant: the price is rounded up to the next hundred yen
RoundedUp_calculateSellingPrice(costCNY, s) ==
    100 * Ceil(costCNY * s.exchangeRate
                + 100 * (s.internationalShipping + s.domesticShipping + s.targetProfit),
               100 * (100 - s.platformFeeRate))

\* costCNY is in hundredths of a yuan
calculateSellingPrice(costCNY, s) ==
    LET baseCost == Times(ToDouble(costCNY), s.exchangeRate)
        totalCost == Plus(Plus(Plus(baseCost, s.internationalShipping),
                               s.domesticShipping), s.targetProfit)
    IN  CeilOfQuotient(totalCost, OneMinus(s.platformFeeRate))

calculateConvertedWithShipping3(costCNY, exchangeRate, shipping) ==
    CeilOf(Plus(Times(ToDouble(costCNY), exchangeRate), shipping))

\* the call with the shipping argument omitted
calculateConvertedWithShipping(costCNY, exchangeRate) ==
    calculateConvertedWithShipping3(costCNY, exchangeRate, DefaultShipping)

\* variant: a loss is shown as no profit
Clamped_calculateProfit(actualPayment, convertedWithShipping) ==
    IF actualPayment < convertedWithShipping THEN 0
    ELSE actualPayment - convertedWithShipping

calculateProfit(actualPayment, convertedWithShipping) ==
    actualPayment - convertedWithShipping

\* ------------------------------------------------------------------------
\* Object spread, partial updates and the arguments of the handlers
\* ------------------------------------------------------------------------
\* { ...base, ...updates }
Spread(base, updates) ==
    [k \in DOMAIN base \cup DOMAIN updates |->
        IF k \in DOMAIN updates THEN updates[k] ELSE base[k]]

\* updates.k !== undefined
Has(updates, k) == k \in DOMAIN updates

\* a collection without the record of one id
Without(coll, id) == [i \in DOMAIN coll \ {id} |-> coll[i]]

\* a || b on date strings
OrElse(a, b) == IF a # NoDate THEN a ELSE b

\* Partial<Settings> as the settings form sends it: one key per call
SettingsUpdates ==
    { [exchangeRate |-> r] : r \in Inputs.exchangeRate }
        \cup { [platformFeeRate |-> f] : f \in Inputs.platformFeeRate }

\* Partial<InventoryItem>
InventoryUpdates ==
    { [quantity |-> q] : q \in Inputs.quantity }
        \cup { [costPriceCNY |-> c] : c \in Inputs.costPriceCNY }
        \cup { [sellingPriceJPY |-> p] : p \in Inputs.derived }

\* Partial<OrderItem>
OrderUpdates ==
    { [completedAt |-> d] : d \in Dates }
        \cup { [costPriceCNY |-> c] : c \in Inputs.costPriceCNY }
        \cup { [actualPayment |-> a] : a \in Inputs.actualPayment }
        \cup { [costPriceCNY |-> c, actualPayment |-> a] : c \in {10000}, a \in {4000} }
        \cup { [convertedWithShipping |-> v] : v \in Inputs.derived }
        \cup { [profit |-> v] : v \in Inputs.derived }

\* the argument of addInventoryItem
NewInventoryItems == [ quantity : Inputs.quantity, costPriceCNY : Inputs.costPriceCNY ]

\* the arguments of addOrderItem
NewOrderItems ==
    [ costPriceCNY : Inputs.costPriceCNY, actualPayment : Inputs.actualPayment,
      createdAt : {NoDate}, completedAt : OptDates ]

\* ------------------------------------------------------------------------
\* State
\* ------------------------------------------------------------------------
VARIABLES
    impl,           \* which hook the page is built on
    stores,         \* useState: sequence of [id, inventory, orders]
    activeStoreId,  \* useState
    settings,       \* useState
    settingsId,     \* useState (cloud hooks): id of the settings row, 0 for null
    isLoading,      \* useState: true until the first load has finished
    localStorage,   \* useStore: [data, settings] as last written
    db,             \* cloud hooks: [stores, inventory_items, order_items, settings]
    nextId,         \* ids handed out so far: [inventory, order, settings]
    faults,         \* persistence writes that have failed so far
    unseen,         \* database writes of this session made since the memory was
                    \* last refreshed
    inFlight,       \* asynchronous work under way: the responses of the
                    \* overlapping fetchData calls in the order of their
                    \* issue, each marked once it has resolved, and the
                    \* writes that a recalculateAllPrices in progress has
                    \* still to make
    lastOp          \* history: the last handler run and whether its write
                    \* succeeded; of a formula applied by itself, also its
                    \* arguments and its result

vars == << impl, stores, activeStoreId, settings, settingsId, isLoading,
           localStorage, db, nextId, faults, unseen, inFlight, lastOp >>

\* nothing under way
Idle == [ fetches |-> << >>, sweep |-> << >> ]

Op(name, ok) == [ name |-> name, ok |-> ok ]

EmptyStore(id) == [ id |-> id, inventory |-> << >>, orders |-> << >> ]

\* prev.map(s => s.id === id ? new(s) : s), with mapped[k] for new(ss[k])
MapStore(ss, id, mapped) ==
    [ k \in 1..Len(ss) |-> IF ss[k].id = id THEN mapped[k] ELSE ss[k] ]

\* every inventory item / order held in memory, over all stores
AllInventory(ss) ==
    [ i \in UNION { DOMAIN ss[k].inventory : k \in 1..Len(ss) } |->
        ss[CHOOSE k \in 1..Len(ss) : i \in DOMAIN ss[k].inventory].inventory[i] ]

AllOrders(ss) ==
    [ i \in UNION { DOMAIN ss[k].orders : k \in 1..Len(ss) } |->
        ss[CHOOSE k \in 1..Len(ss) : i \in DOMAIN ss[k].orders].orders[i] ]

\* the outcomes of one persistence write: it succeeds, or (while the run has
\* faults left) it fails
Outcomes == IF faults < MaxFaults THEN BOOLEAN ELSE {TRUE}

Fault(ok) == IF ok THEN faults ELSE faults + 1

\* ------------------------------------------------------------------------
\* hooks/useStore.ts: state in memory, mirrored to localStorage by effects
\* ------------------------------------------------------------------------
\* the effect of lines 64-74: localStorage.setItem(STORAGE_KEY, ...) in a
\* try/catch; a throwing setItem (quota) leaves the stored value as it was
SaveData(saved, ss, active) ==
    IF saved
    THEN [ localStorage EXCEPT !.data = [ stores |-> ss, activeStoreId |-> active ] ]
    ELSE localStorage

\* the effect of lines 76-84 for SETTINGS_KEY
SaveSettings(saved, s) ==
    IF saved THEN [ localStorage EXCEPT !.settings = s ] ELSE localStorage

\* what a handler of useStore leaves alone besides the state it sets
LocalFrame(saved) ==
    /\ faults' = Fault(saved)
    /\ UNCHANGED << impl, inFlight, settingsId, isLoading, db, unseen >>

\* setActiveStoreId(id) from the sidebar, on a store of the list
useStore_setActiveStoreId(id, saved) ==
    /\ impl = "local"
    /\ \E k \in 1..Len(stores) : stores[k].id = id
    /\ id # activeStoreId
    /\ activeStoreId' = id
    /\ localStorage' = SaveData(saved, stores, id)
    /\ lastOp' = Op("setActiveStoreId", saved)
    /\ LocalFrame(saved)
    /\ UNCHANGED << stores, settings, nextId >>

\* variant: the record is stored as given, its price left uncomputed
Underived_newInventoryItem(item, s) ==
    [ quantity |-> item.quantity,
      costPriceCNY |-> item.costPriceCNY,
      sellingPriceJPY |-> 0 ]

\* lines 114-118: the record addInventoryItem builds
Local_newInventoryItem(item, s) ==
    [ quantity |-> item.quantity,
      costPriceCNY |-> item.costPriceCNY,
      sellingPriceJPY |-> calculateSellingPrice(item.costPriceCNY, s) ]

\* lines 113-124
useStore_addInventoryItem(item, saved) ==
    /\ impl = "local"
    /\ nextId.inventory + nextId.order < MaxItems
    /\ LET id == nextId.inventory + 1
           add(st) == [ st EXCEPT !.inventory =
                          (id :> Local_newInventoryItem(item, settings)) @@ st.inventory ]
           ss == MapStore(stores, activeStoreId, [ k \in 1..Len(stores) |-> add(stores[k]) ])
       IN  /\ stores' = ss
           /\ nextId' = [ nextId EXCEPT !.inventory = id ]
           /\ localStorage' = SaveData(saved, ss, activeStoreId)
    /\ lastOp' = Op("addInventoryItem", saved)
    /\ LocalFrame(saved)
    /\ UNCHANGED << activeStoreId, settings >>

\* lines 132-137: the body of inventory.map for the item named
Local_updatedInventoryItem(item, updates, s) ==
    LET updated == Spread(item, updates)
    IN  IF Has(updates, "costPriceCNY")
        THEN [ updated EXCEPT
                 !.sellingPriceJPY = calculateSellingPrice(updates.costPriceCNY, s) ]
        ELSE updated

\* lines 127-140
Local_updateInventory(ss, active, itemId, updates, s) ==
    LET upd(st) ==
          [ st EXCEPT !.inventory =
              [ i \in DOMAIN st.inventory |->
                  IF i # itemId THEN st.inventory[i]
                  ELSE Local_updatedInventoryItem(st.inventory[i], updates, s) ] ]
    IN  MapStore(ss, active, [ k \in 1..Len(ss) |-> upd(ss[k]) ])

\* lines 126-141
useStore_updateInventoryItem(itemId, updates, saved) ==
    /\ impl = "local"
    /\ LET ss == Local_updateInventory(stores, activeStoreId, itemId, updates, settings)
       IN  /\ stores' = ss
           /\ localStorage' = SaveData(saved, ss, activeStoreId)
    /\ lastOp' = Op("updateInventoryItem", saved)
    /\ LocalFrame(saved)
    /\ UNCHANGED << activeStoreId, settings, nextId >>

\* lines 143-149
useStore_deleteInventoryItem(itemId, saved) ==
    /\ impl = "local"
    /\ LET del(st) == [ st EXCEPT !.inventory = Without(st.inventory, itemId) ]
           ss == MapStore(stores, activeStoreId, [ k \in 1..Len(stores) |-> del(stores[k]) ])
       IN  /\ stores' = ss
           /\ localStorage' = SaveData(saved, ss, activeStoreId)
    /\ lastOp' = Op("deleteInventoryItem", saved)
    /\ LocalFrame(saved)
    /\ UNCHANGED << activeStoreId, settings, nextId >>

\* lines 152-162: the record addOrderItem builds
Local_newOrderItem(item, createdAt, s) ==
    LET convertedWithShipping ==
            calculateConvertedWithShipping(item.costPriceCNY, s.exchangeRate)
        profit == calculateProfit(item.actualPayment, convertedWithShipping)
        orderDate == OrElse(createdAt, OrElse(item.createdAt, Now))
    IN  [ costPriceCNY |-> item.costPriceCNY,
          actualPayment |-> item.actualPayment,
          convertedWithShipping |-> convertedWithShipping,
          profit |-> profit,
          createdAt |-> orderDate,
          completedAt |-> OrElse(item.completedAt, orderDate) ]

\* lines 151-168
useStore_addOrderItem(item, createdAt, saved) ==
    /\ impl = "local"
    /\ nextId.inventory + nextId.order < MaxItems
    /\ LET id == nextId.order + 1
           add(st) == [ st EXCEPT !.orders =
                          (id :> Local_newOrderItem(item, createdAt, settings))
                             @@ st.orders ]
           ss == MapStore(stores, activeStoreId, [ k \in 1..Len(stores) |-> add(stores[k]) ])
       IN  /\ stores' = ss
           /\ nextId' = [ nextId EXCEPT !.order = id ]
           /\ localStorage' = SaveData(saved, ss, activeStoreId)
    /\ lastOp' = Op("addOrderItem", saved)
    /\ LocalFrame(saved)
    /\ UNCHANGED << activeStoreId, settings >>

\* variant: every update of an order recomputes its derived fields
Eager_updatedOrderItem(item, updates, s) ==
    LET updated == Spread(item, updates)
        convertedWithShipping ==
            calculateConvertedWithShipping(updated.costPriceCNY, s.exchangeRate)
    IN  [ updated EXCEPT
            !.convertedWithShipping = convertedWithShipping,
            !.profit = calculateProfit(updated.actualPayment, convertedWithShipping) ]

\* lines 176-187: the body of orders.map for the order named
Local_updatedOrderItem(item, updates, s) ==
    LET updated == Spread(item, updates)
        withConverted ==
            IF Has(updates, "costPriceCNY")
            THEN [ updated EXCEPT !.convertedWithShipping =
                     calculateConvertedWithShipping(updates.costPriceCNY, s.exchangeRate) ]
            ELSE updated
    IN  IF Has(updates, "actualPayment") \/ Has(updates, "costPriceCNY")
        THEN [ withConverted EXCEPT !.profit =
                 calculateProfit(withConverted.actualPayment,
                                 withConverted.convertedWithShipping) ]
        ELSE withConverted

\* lines 171-190
Local_updateOrder(ss, active, itemId, updates, s) ==
    LET upd(st) ==
          [ st EXCEPT !.orders =
              [ i \in DOMAIN st.orders |->
                  IF i # itemId THEN st.orders[i]
                  ELSE Local_updatedOrderItem(st.orders[i], updates, s) ] ]
    IN  MapStore(ss, active, [ k \in 1..Len(ss) |-> upd(ss[k]) ])

\* lines 170-191
useStore_updateOrderItem(itemId, updates, saved) ==
    /\ impl = "local"
    /\ LET ss == Local_updateOrder(stores, activeStoreId, itemId, updates, settings)
       IN  /\ stores' = ss
           /\ localStorage' = SaveData(saved, ss, activeStoreId)
    /\ lastOp' = Op("updateOrderItem", saved)
    /\ LocalFrame(saved)
    /\ UNCHANGED << activeStoreId, settings, nextId >>

\* lines 193-199
useStore_deleteOrderItem(itemId, saved) ==
    /\ impl = "local"
    /\ LET del(st) == [ st EXCEPT !.orders = Without(st.orders, itemId) ]
           ss == MapStore(stores, activeStoreId, [ k \in 1..Len(stores) |-> del(stores[k]) ])
       IN  /\ stores' = ss
           /\ localStorage' = SaveData(saved, ss, activeStoreId)
    /\ lastOp' = Op("deleteOrderItem", saved)
    /\ LocalFrame(saved)
    /\ UNCHANGED << activeStoreId, settings, nextId >>

\* lines 201-203
useStore_updateSettings(newSettings, saved) ==
    /\ impl = "local"
    /\ settings' = Spread(settings, newSettings)
    /\ localStorage' = SaveSettings(saved, Spread(settings, newSettings))
    /\ lastOp' = Op("updateSettings", saved)
    /\ LocalFrame(saved)
    /\ UNCHANGED << stores, activeStoreId, nextId >>

\* lines 209-212: one inventory item of the sweep
Local_recalculatedInventoryItem(item, s) ==
    [ item EXCEPT !.sellingPriceJPY = calculateSellingPrice(item.costPriceCNY, s) ]

\* variant: the profit of the sweep is taken from the profit stored before
Accumulating_recalculatedOrderItem(order, s) ==
    LET convertedWithShipping ==
            calculateConvertedWithShipping(order.costPriceCNY, s.exchangeRate)
    IN  [ order EXCEPT
            !.convertedWithShipping = convertedWithShipping,
            !.profit = calculateProfit(order.profit, convertedWithShipping) ]

\* lines 213-220: one order of the sweep
Local_recalculatedOrderItem(order, s) ==
    LET convertedWithShipping ==
            calculateConvertedWithShipping(order.costPriceCNY, s.exchangeRate)
    IN  [ order EXCEPT
            !.convertedWithShipping = convertedWithShipping,
            !.profit = calculateProfit(order.actualPayment, convertedWithShipping) ]

\* variant: the sweep goes over the first store only
FirstStoreOnly_recalculateAll(ss, s) ==
    [ k \in 1..Len(ss) |->
        IF k # 1 THEN ss[k]
        ELSE [ ss[k] EXCEPT
                 !.inventory = [ i \in DOMAIN ss[k].inventory |->
                                   Local_recalculatedInventoryItem(ss[k].inventory[i], s) ],
                 !.orders = [ i \in DOMAIN ss[k].orders |->
                                Local_recalculatedOrderItem(ss[k].orders[i], s) ] ] ]

\* lines 207-221: prev.map over every store
Local_recalculateAll(ss, s) ==
    [ k \in 1..Len(ss) |->
        [ ss[k] EXCEPT
            !.inventory = [ i \in DOMAIN ss[k].inventory |->
                              Local_recalculatedInventoryItem(ss[k].inventory[i], s) ],
            !.orders = [ i \in DOMAIN ss[k].orders |->
                           Local_recalculatedOrderItem(ss[k].orders[i], s) ] ] ]

\* lines 205-222
useStore_recalculateAllPrices(saved) ==
    /\ impl = "local"
    /\ LET ss == Local_recalculateAll(stores, settings)
       IN  /\ stores' = ss
           /\ localStorage' = SaveData(saved, ss, activeStoreId)
    /\ lastOp' = Op("recalculateAllPrices", saved)
    /\ LocalFrame(saved)
    /\ UNCHANGED << activeStoreId, settings, nextId >>

\* ------------------------------------------------------------------------
\* The database of the cloud hooks (supabase/migrations)
\* ------------------------------------------------------------------------
\* the settings row the migration inserts
DefaultSettingsRow(id) ==
    [ id |-> id,
      exchange_rate |-> 23,
      international_shipping |-> 1000,
      domestic_shipping |-> 1000,
      target_profit |-> 6000,
      platform_fee_rate |-> 22 ]

\* variant: .update(values) without its .eq('id', id)
Unfiltered_UpdateRow(table, id, values) ==
    [ i \in DOMAIN table |-> Spread(table[i], values) ]

\* .update(values).eq('id', id): the row named, if there is one
UpdateRow(table, id, values) ==
    [ i \in DOMAIN table |-> IF i = id THEN Spread(table[i], values) ELSE table[i] ]

\* store_id REFERENCES stores(id): an insert for a store that is gone fails
StoreExists(d, storeId) == \E k \in 1..Len(d.stores) : d.stores[k] = storeId

toFrontendInventory(item) ==
    [ quantity |-> item.quantity,
      costPriceCNY |-> item.cost_price_cny,
      sellingPriceJPY |-> item.selling_price_jpy ]

toFrontendOrder(item) ==
    [ costPriceCNY |-> item.cost_price_cny,
      convertedWithShipping |-> item.converted_with_shipping,
      actualPayment |-> item.actual_payment,
      profit |-> item.profit,
      createdAt |-> item.created_at,
      completedAt |-> item.completed_at ]

toFrontendSettings(s) ==
    [ exchangeRate |-> s.exchange_rate,
      internationalShipping |-> s.international_shipping,
      domesticShipping |-> s.domestic_shipping,
      targetProfit |-> s.target_profit,
      platformFeeRate |-> s.platform_fee_rate ]

\* the stores of fetchData: every store row with its items grouped under it
StoresWithData(d) ==
    [ k \in 1..Len(d.stores) |->
        [ id |-> d.stores[k],
          inventory |->
            [ i \in { j \in DOMAIN d.inventory_items :
                        d.inventory_items[j].store_id = d.stores[k] } |->
                toFrontendInventory(d.inventory_items[i]) ],
          orders |->
            [ i \in { j \in DOMAIN d.order_items :
                        d.order_items[j].store_id = d.stores[k] } |->
                toFrontendOrder(d.order_items[i]) ] ] ]

\* stores.find(s => s.id === storeId)?.orders.find(o => o.id === itemId),
\* as the set holding the order found, or the empty set
FindOrderIn(ss, storeId, itemId) ==
    { ss[k].orders[itemId] :
        k \in { j \in 1..Len(ss) : ss[j].id = storeId /\ itemId \in DOMAIN ss[j].orders } }

\* stores.flatMap(s => s.orders).find(o => o.id === itemId)
FindOrder(ss, itemId) ==
    { ss[k].orders[itemId] :
        k \in { j \in 1..Len(ss) : itemId \in DOMAIN ss[j].orders } }

\* the sets of writes of one sweep that may fail, given the faults left
FailingSubsets(writes) ==
    { f \in SUBSET writes : Cardinality(f) <= MaxFaults - faults }

\* a write that changed a row is one more change the memory has not seen
Unseen(d) == IF d # db THEN unseen + 1 ELSE unseen

\* variant: a handler that writes the database puts the settings of the
\* memory back to the defaults
Resetting_WriteFrame ==
    /\ settings' = defaultSettings
    /\ UNCHANGED << impl, inFlight, isLoading, stores, activeStoreId, settingsId,
                    localStorage >>

\* what a handler of a cloud hook that only writes the database leaves alone
WriteFrame ==
    UNCHANGED << impl, inFlight, isLoading, stores, activeStoreId, settings, settingsId,
                 localStorage >>

\* ------------------------------------------------------------------------
\* hooks/useCloudStore.ts: rows in the database, memory refreshed by fetchData
\* ------------------------------------------------------------------------
\* lines 127-130: the active store after a fetch
Cloud_activeAfterFetch(active, cloudStores) ==
    IF active = NoStore \/ ~(\E k \in 1..Len(cloudStores) : cloudStores[k].id = active)
    THEN (IF Len(cloudStores) > 0 THEN cloudStores[1].id ELSE NoStore)
    ELSE active

\* lines 30-141.  The settings row is read and set first; an error of a later
\* select leaves the stores as they were.  With no store row a default store
\* is inserted.  r is the settings row that .limit(1) returns; a fetch that
\* fails with r = 0 has failed at the select of the settings.
useCloudStore_fetchData(r, ok) ==
    /\ impl = "cloud"
    /\ IF db.settings = << >> \/ (~ok /\ r = 0)
       THEN r = 0 /\ UNCHANGED << settings, settingsId >>
       ELSE /\ r \in 1..Len(db.settings)
            /\ settings' = toFrontendSettings(db.settings[r])
            /\ settingsId' = db.settings[r].id
    /\ IF ~ok
       THEN UNCHANGED << stores, activeStoreId, db, nextId >>
       ELSE IF Len(db.stores) = 0
       THEN LET id == nextId.store + 1
            IN  /\ db' = [ db EXCEPT !.stores = << id >> ]
                /\ nextId' = [ nextId EXCEPT !.store = id ]
                /\ stores' = << EmptyStore(id) >>
                /\ activeStoreId' =
                     Cloud_activeAfterFetch(activeStoreId, << EmptyStore(id) >>)
       ELSE /\ stores' = StoresWithData(db)
            /\ activeStoreId' = Cloud_activeAfterFetch(activeStoreId, StoresWithData(db))
            /\ UNCHANGED << db, nextId >>
    /\ faults' = Fault(ok)
    /\ unseen' = IF ok THEN 0 ELSE unseen
    /\ lastOp' = Op("fetchData", ok)
    /\ isLoading' = FALSE
    /\ UNCHANGED << impl, inFlight, localStorage >>

\* Sidebar: onSelectStore={setActiveStoreId} on a store of the list shown
useCloudStore_setActiveStoreId(id) ==
    /\ impl = "cloud"
    /\ ~isLoading
    /\ \E k \in 1..Len(stores) : stores[k].id = id
    /\ id # activeStoreId
    /\ activeStoreId' = id
    /\ lastOp' = Op("setActiveStoreId", TRUE)
    /\ UNCHANGED << impl, inFlight, isLoading, stores, settings, settingsId, localStorage, db,
                    nextId, faults, unseen >>

\* lines 246-259: the row addInventoryItem inserts
Cloud_newInventoryRow(active, item, s) ==
    [ store_id |-> active,
      quantity |-> item.quantity,
      cost_price_cny |-> item.costPriceCNY,
      selling_price_jpy |-> calculateSellingPrice(item.costPriceCNY, s) ]

\* lines 242-270
useCloudStore_addInventoryItem(item, written) ==
    /\ impl = "cloud"
    /\ ~isLoading
    /\ unseen < MaxUnseen
    /\ nextId.inventory + nextId.order < MaxItems
    /\ activeStoreId # NoStore
    /\ LET id == nextId.inventory + 1
           ok == written /\ StoreExists(db, activeStoreId)
       IN  /\ IF ok
              THEN /\ db' = [ db EXCEPT !.inventory_items =
                                (id :> Cloud_newInventoryRow(activeStoreId, item, settings))
                                   @@ db.inventory_items ]
                   /\ nextId' = [ nextId EXCEPT !.inventory = id ]
              ELSE UNCHANGED << db, nextId >>
           /\ lastOp' = Op("addInventoryItem", ok)
    /\ faults' = Fault(written)
    /\ unseen' = Unseen(db')
    /\ WriteFrame

\* variant: a new cost is written without the price that depends on it
CostOnly_inventoryDbUpdates(updates, s) ==
    LET q == IF Has(updates, "quantity")
             THEN [ quantity |-> updates.quantity ] ELSE << >>
        c == IF Has(updates, "costPriceCNY")
             THEN [ cost_price_cny |-> updates.costPriceCNY ] ELSE << >>
    IN  Spread(q, c)

\* lines 274-284: the columns updateInventoryItem writes
Cloud_inventoryDbUpdates(updates, s) ==
    LET q == IF Has(updates, "quantity")
             THEN [ quantity |-> updates.quantity ] ELSE << >>
        c == IF Has(updates, "costPriceCNY")
             THEN [ cost_price_cny |-> updates.costPriceCNY,
                    selling_price_jpy |-> calculateSellingPrice(updates.costPriceCNY, s) ]
             ELSE << >>
    IN  Spread(q, c)

\* lines 272-300
useCloudStore_updateInventoryItem(itemId, updates, ok) ==
    /\ impl = "cloud"
    /\ ~isLoading
    /\ unseen < MaxUnseen
    /\ db' = IF ok
             THEN [ db EXCEPT !.inventory_items =
                      UpdateRow(db.inventory_items, itemId,
                                Cloud_inventoryDbUpdates(updates, settings)) ]
             ELSE db
    /\ lastOp' = Op("updateInventoryItem", ok)
    /\ faults' = Fault(ok)
    /\ unseen' = Unseen(db')
    /\ UNCHANGED nextId
    /\ WriteFrame

\* lines 302-318
useCloudStore_deleteInventoryItem(itemId, ok) ==
    /\ impl = "cloud"
    /\ ~isLoading
    /\ unseen < MaxUnseen
    /\ db' = IF ok
             THEN [ db EXCEPT !.inventory_items = Without(db.inventory_items, itemId) ]
             ELSE db
    /\ lastOp' = Op("deleteInventoryItem", ok)
    /\ faults' = Fault(ok)
    /\ unseen' = Unseen(db')
    /\ UNCHANGED nextId
    /\ WriteFrame

\* lines 324-342: the row addOrderItem inserts
Cloud_newOrderRow(active, item, createdAt, s) ==
    LET convertedWithShipping ==
            calculateConvertedWithShipping(item.costPriceCNY, s.exchangeRate)
        profit == calculateProfit(item.actualPayment, convertedWithShipping)
        orderDate == OrElse(createdAt, OrElse(item.createdAt, Now))
    IN  [ store_id |-> active,
          cost_price_cny |-> item.costPriceCNY,
          converted_with_shipping |-> convertedWithShipping,
          actual_payment |-> item.actualPayment,
          profit |-> profit,
          created_at |-> orderDate,
          completed_at |-> OrElse(item.completedAt, orderDate) ]

\* lines 320-353
useCloudStore_addOrderItem(item, createdAt, written) ==
    /\ impl = "cloud"
    /\ ~isLoading
    /\ unseen < MaxUnseen
    /\ nextId.inventory + nextId.order < MaxItems
    /\ activeStoreId # NoStore
    /\ LET id == nextId.order + 1
           ok == written /\ StoreExists(db, activeStoreId)
       IN  /\ IF ok
              THEN /\ db' = [ db EXCEPT !.order_items =
                                (id :> Cloud_newOrderRow(activeStoreId, item, createdAt,
                                                          settings))
                                   @@ db.order_items ]
                   /\ nextId' = [ nextId EXCEPT !.order = id ]
              ELSE UNCHANGED << db, nextId >>
           /\ lastOp' = Op("addOrderItem", ok)
    /\ faults' = Fault(written)
    /\ unseen' = Unseen(db')
    /\ WriteFrame

\* lines 357-382: the columns updateOrderItem writes; currentOrder is the set
\* holding the order found in the active store of the memory, or empty
Cloud_orderDbUpdates(updates, currentOrder, s) ==
    LET plain ==
            Spread(IF Has(updates, "completedAt")
                   THEN [ completed_at |-> updates.completedAt ] ELSE << >>,
                   IF Has(updates, "actualPayment")
                   THEN [ actual_payment |-> updates.actualPayment ] ELSE << >>)
    IN  IF Has(updates, "costPriceCNY")
        THEN LET convertedWithShipping ==
                     calculateConvertedWithShipping(updates.costPriceCNY, s.exchangeRate)
                 cost == Spread(plain,
                                [ cost_price_cny |-> updates.costPriceCNY,
                                  converted_with_shipping |-> convertedWithShipping ])
             IN  IF currentOrder # {}
                 THEN LET cur == CHOOSE o \in currentOrder : TRUE
                          actualPayment ==
                              IF Has(updates, "actualPayment")
                              THEN updates.actualPayment ELSE cur.actualPayment
                      IN  Spread(cost, [ profit |->
                                calculateProfit(actualPayment, convertedWithShipping) ])
                 ELSE cost
        ELSE IF Has(updates, "actualPayment") /\ currentOrder # {}
        THEN LET cur == CHOOSE o \in currentOrder : TRUE
             IN  Spread(plain, [ profit |->
                       calculateProfit(updates.actualPayment, cur.convertedWithShipping) ])
        ELSE plain

\* lines 355-398
useCloudStore_updateOrderItem(itemId, updates, ok) ==
    /\ impl = "cloud"
    /\ ~isLoading
    /\ unseen < MaxUnseen
    /\ db' = IF ok
             THEN [ db EXCEPT !.order_items =
                      UpdateRow(db.order_items, itemId,
                                Cloud_orderDbUpdates(updates,
                                    FindOrderIn(stores, activeStoreId, itemId),
                                    settings)) ]
             ELSE db
    /\ lastOp' = Op("updateOrderItem", ok)
    /\ faults' = Fault(ok)
    /\ unseen' = Unseen(db')
    /\ UNCHANGED nextId
    /\ WriteFrame

\* lines 400-416
useCloudStore_deleteOrderItem(itemId, ok) ==
    /\ impl = "cloud"
    /\ ~isLoading
    /\ unseen < MaxUnseen
    /\ db' = IF ok
             THEN [ db EXCEPT !.order_items = Without(db.order_items, itemId) ]
             ELSE db
    /\ lastOp' = Op("deleteOrderItem", ok)
    /\ faults' = Fault(ok)
    /\ unseen' = Unseen(db')
    /\ UNCHANGED nextId
    /\ WriteFrame

\* lines 423-429
Cloud_settingsDbUpdates(updatedSettings) ==
    [ exchange_rate |-> updatedSettings.exchangeRate,
      international_shipping |-> updatedSettings.internationalShipping,
      domestic_shipping |-> updatedSettings.domesticShipping,
      target_profit |-> updatedSettings.targetProfit,
      platform_fee_rate |-> updatedSettings.platformFeeRate ]

\* .update(values).eq('id', id) on the settings rows
UpdateSettingsRow(rows, id, values) ==
    [ r \in 1..Len(rows) |->
        IF rows[r].id = id THEN Spread(rows[r], values) ELSE rows[r] ]

\* lines 418-447: the memory is set before the write, and with no settingsId
\* nothing is written
useCloudStore_updateSettings(newSettings, ok) ==
    /\ impl = "cloud"
    /\ ~isLoading
    /\ unseen < MaxUnseen
    /\ LET updatedSettings == Spread(settings, newSettings)
       IN  /\ settings' = updatedSettings
           /\ IF settingsId # 0
              THEN /\ db' = IF ok
                            THEN [ db EXCEPT !.settings =
                                     UpdateSettingsRow(db.settings, settingsId,
                                         Cloud_settingsDbUpdates(updatedSettings)) ]
                            ELSE db
                   /\ faults' = Fault(ok)
              ELSE /\ ok
                   /\ UNCHANGED << db, faults >>
    /\ lastOp' = Op("updateSettings", ok)
    /\ unseen' = Unseen(db')
    /\ UNCHANGED << impl, inFlight, isLoading, stores, activeStoreId, settingsId, localStorage,
                    nextId >>

\* line 458: the columns written for one inventory item
Cloud_recalculatedInventory(item, s) ==
    [ selling_price_jpy |-> calculateSellingPrice(item.costPriceCNY, s) ]

\* lines 453-460: the inventory items of the memory whose price is written
Cloud_inventoryWrites(ss, s) ==
    { i \in DOMAIN AllInventory(ss) :
        Cloud_recalculatedInventory(AllInventory(ss)[i], s).selling_price_jpy
            # AllInventory(ss)[i].sellingPriceJPY }

\* variant: the sweep also stamps the order as completed at the call
Stamping_recalculatedOrder(order, s) ==
    LET newConvertedWithShipping ==
            calculateConvertedWithShipping(order.costPriceCNY, s.exchangeRate)
        newProfit == calculateProfit(order.actualPayment, newConvertedWithShipping)
    IN  [ converted_with_shipping |-> newConvertedWithShipping, profit |-> newProfit,
          completed_at |-> "swept" ]

\* variant: the sweep writes the new convertedWithShipping and leaves the
\* profit for a later write
ConvertedOnly_recalculatedOrder(order, s) ==
    [ converted_with_shipping |->
        calculateConvertedWithShipping(order.costPriceCNY, s.exchangeRate),
      profit |-> order.profit ]

\* lines 465-476: the columns written for one order
Cloud_recalculatedOrder(order, s) ==
    LET newConvertedWithShipping ==
            calculateConvertedWithShipping(order.costPriceCNY, s.exchangeRate)
        newProfit == calculateProfit(order.actualPayment, newConvertedWithShipping)
    IN  [ converted_with_shipping |-> newConvertedWithShipping, profit |-> newProfit ]

\* lines 464-468: the orders of the memory whose columns are written
Cloud_orderWrites(ss, s) ==
    { i \in DOMAIN AllOrders(ss) :
        LET new == Cloud_recalculatedOrder(AllOrders(ss)[i], s)
        IN  \/ new.converted_with_shipping # AllOrders(ss)[i].convertedWithShipping
            \/ new.profit # AllOrders(ss)[i].profit }

\* the rows after the writes of a sweep: every row named in writes gets the
\* columns computed from the item of the memory
SweepRows(table, writes, columns) ==
    [ i \in DOMAIN table |->
        IF i \in writes THEN Spread(table[i], columns[i]) ELSE table[i] ]

\* lines 452-481: the database after the writes of the sweep that did not fail
Cloud_sweep(d, ss, s, failedInv, failedOrd) ==
    [ d EXCEPT
        !.inventory_items =
            SweepRows(d.inventory_items,
                      Cloud_inventoryWrites(ss, s) \ failedInv,
                      [ i \in DOMAIN AllInventory(ss) |->
                          Cloud_recalculatedInventory(AllInventory(ss)[i], s) ]),
        !.order_items =
            SweepRows(d.order_items,
                      Cloud_orderWrites(ss, s) \ failedOrd,
                      [ i \in DOMAIN AllOrders(ss) |->
                          Cloud_recalculatedOrder(AllOrders(ss)[i], s) ]) ]

\* lines 449-492: the awaited updates return their error, which is not
\* looked at, so a failed write is passed over and the sweep goes on
useCloudStore_recalculateAllPrices(failedInv, failedOrd) ==
    /\ impl = "cloud"
    /\ ~isLoading
    /\ unseen < MaxUnseen
    /\ failedInv \subseteq Cloud_inventoryWrites(stores, settings)
    /\ failedOrd \subseteq Cloud_orderWrites(stores, settings)
    /\ Cardinality(failedInv) + Cardinality(failedOrd) <= MaxFaults - faults
    /\ db' = Cloud_sweep(db, stores, settings, failedInv, failedOrd)
    /\ faults' = faults + Cardinality(failedInv) + Cardinality(failedOrd)
    /\ lastOp' = Op("recalculateAllPrices", failedInv = {} /\ failedOrd = {})
    /\ unseen' = Unseen(db')
    /\ UNCHANGED nextId
    /\ WriteFrame

\* ------------------------------------------------------------------------
\* hooks/useSupabaseStore.ts
\* ------------------------------------------------------------------------
\* lines 86-149: the four selects come first and any error leaves the memory
\* as it was; r is the settings row that .limit(1) returns
useSupabaseStore_fetchData(r, ok) ==
    /\ impl = "supabase"
    /\ IF ok
       THEN /\ stores' = StoresWithData(db)
            /\ activeStoreId' =
                 IF Len(db.stores) > 0 /\ activeStoreId = NoStore
                 THEN db.stores[1] ELSE activeStoreId
            /\ IF db.settings = << >>
               THEN r = 0 /\ UNCHANGED << settings, settingsId >>
               ELSE /\ r \in 1..Len(db.settings)
                    /\ settings' = toFrontendSettings(db.settings[r])
                    /\ settingsId' = db.settings[r].id
       ELSE /\ r = 0
            /\ UNCHANGED << stores, activeStoreId, settings, settingsId >>
    /\ faults' = Fault(ok)
    /\ unseen' = IF ok THEN 0 ELSE unseen
    /\ lastOp' = Op("fetchData", ok)
    /\ isLoading' = FALSE
    /\ UNCHANGED << impl, inFlight, localStorage, db, nextId >>

\* setActiveStoreId(id) on a store of the list shown
useSupabaseStore_setActiveStoreId(id) ==
    /\ impl = "supabase"
    /\ ~isLoading
    /\ \E k \in 1..Len(stores) : stores[k].id = id
    /\ id # activeStoreId
    /\ activeStoreId' = id
    /\ lastOp' = Op("setActiveStoreId", TRUE)
    /\ UNCHANGED << impl, inFlight, isLoading, stores, settings, settingsId, localStorage, db,
                    nextId, faults, unseen >>

\* lines 228-239: the row addInventoryItem inserts
Supabase_newInventoryRow(active, item, s) ==
    [ store_id |-> active,
      quantity |-> item.quantity,
      cost_price_cny |-> item.costPriceCNY,
      selling_price_jpy |-> calculateSellingPrice(item.costPriceCNY, s) ]

\* lines 223-244
useSupabaseStore_addInventoryItem(item, written) ==
    /\ impl = "supabase"
    /\ ~isLoading
    /\ unseen < MaxUnseen
    /\ nextId.inventory + nextId.order < MaxItems
    /\ activeStoreId # NoStore
    /\ LET id == nextId.inventory + 1
           ok == written /\ StoreExists(db, activeStoreId)
       IN  /\ IF ok
              THEN /\ db' = [ db EXCEPT !.inventory_items =
                                (id :> Supabase_newInventoryRow(activeStoreId, item,
                                                                 settings))
                                   @@ db.inventory_items ]
                   /\ nextId' = [ nextId EXCEPT !.inventory = id ]
              ELSE UNCHANGED << db, nextId >>
           /\ lastOp' = Op("addInventoryItem", ok)
    /\ faults' = Fault(written)
    /\ unseen' = Unseen(db')
    /\ WriteFrame

\* lines 247-257: the columns updateInventoryItem writes
Supabase_inventoryUpdateData(updates, s) ==
    LET q == IF Has(updates, "quantity")
             THEN [ quantity |-> updates.quantity ] ELSE << >>
        c == IF Has(updates, "costPriceCNY")
             THEN [ cost_price_cny |-> updates.costPriceCNY,
                    selling_price_jpy |-> calculateSellingPrice(updates.costPriceCNY, s) ]
             ELSE << >>
    IN  Spread(q, c)

\* lines 246-267
useSupabaseStore_updateInventoryItem(itemId, updates, ok) ==
    /\ impl = "supabase"
    /\ ~isLoading
    /\ unseen < MaxUnseen
    /\ db' = IF ok
             THEN [ db EXCEPT !.inventory_items =
                      UpdateRow(db.inventory_items, itemId,
                                Supabase_inventoryUpdateData(updates, settings)) ]
             ELSE db
    /\ lastOp' = Op("updateInventoryItem", ok)
    /\ faults' = Fault(ok)
    /\ unseen' = Unseen(db')
    /\ UNCHANGED nextId
    /\ WriteFrame

\* lines 269-278
useSupabaseStore_deleteInventoryItem(itemId, ok) ==
    /\ impl = "supabase"
    /\ ~isLoading
    /\ unseen < MaxUnseen
    /\ db' = IF ok
             THEN [ db EXCEPT !.inventory_items = Without(db.inventory_items, itemId) ]
             ELSE db
    /\ lastOp' = Op("deleteInventoryItem", ok)
    /\ faults' = Fault(ok)
    /\ unseen' = Unseen(db')
    /\ UNCHANGED nextId
    /\ WriteFrame

\* lines 284-302: the row addOrderItem inserts
Supabase_newOrderRow(active, item, createdAt, s) ==
    LET convertedWithShipping ==
            calculateConvertedWithShipping(item.costPriceCNY, s.exchangeRate)
        profit == calculateProfit(item.actualPayment, convertedWithShipping)
        orderDate == OrElse(createdAt, OrElse(item.createdAt, Now))
    IN  [ store_id |-> active,
          cost_price_cny |-> item.costPriceCNY,
          converted_with_shipping |-> convertedWithShipping,
          actual_payment |-> item.actualPayment,
          profit |-> profit,
          created_at |-> orderDate,
          completed_at |-> OrElse(item.completedAt, orderDate) ]

\* lines 281-307
useSupabaseStore_addOrderItem(item, createdAt, written) ==
    /\ impl = "supabase"
    /\ ~isLoading
    /\ unseen < MaxUnseen
    /\ nextId.inventory + nextId.order < MaxItems
    /\ activeStoreId # NoStore
    /\ LET id == nextId.order + 1
           ok == written /\ StoreExists(db, activeStoreId)
       IN  /\ IF ok
              THEN /\ db' = [ db EXCEPT !.order_items =
                                (id :> Supabase_newOrderRow(activeStoreId, item,
                                                             createdAt, settings))
                                   @@ db.order_items ]
                   /\ nextId' = [ nextId EXCEPT !.order = id ]
              ELSE UNCHANGED << db, nextId >>
           /\ lastOp' = Op("addOrderItem", ok)
    /\ faults' = Fault(written)
    /\ unseen' = Unseen(db')
    /\ WriteFrame

\* lines 317-343: the columns updateOrderItem writes for the order found
Supabase_orderUpdateData(updates, currentOrder, s) ==
    LET plain ==
            Spread(IF Has(updates, "createdAt")
                   THEN [ created_at |-> updates.createdAt ] ELSE << >>,
                   IF Has(updates, "completedAt")
                   THEN [ completed_at |-> updates.completedAt ] ELSE << >>)
        costPrice == IF Has(updates, "costPriceCNY")
                     THEN updates.costPriceCNY ELSE currentOrder.costPriceCNY
        actualPayment == IF Has(updates, "actualPayment")
                         THEN updates.actualPayment ELSE currentOrder.actualPayment
        cost == IF Has(updates, "costPriceCNY")
                THEN [ cost_price_cny |-> costPrice ] ELSE << >>
        payment == IF Has(updates, "actualPayment")
                   THEN [ actual_payment |-> actualPayment ] ELSE << >>
        converted == calculateConvertedWithShipping(costPrice, s.exchangeRate)
        derived == IF Has(updates, "costPriceCNY") \/ Has(updates, "actualPayment")
                   THEN [ converted_with_shipping |-> converted,
                          profit |-> calculateProfit(actualPayment, converted) ]
                   ELSE << >>
    IN  Spread(Spread(plain, cost), Spread(payment, derived))

\* lines 309-353: an order the memory does not hold is not written at all
useSupabaseStore_updateOrderItem(itemId, updates, ok) ==
    /\ impl = "supabase"
    /\ ~isLoading
    /\ unseen < MaxUnseen
    /\ IF FindOrder(stores, itemId) = {}
       THEN /\ ok
            /\ UNCHANGED db
       ELSE db' = IF ok
                  THEN [ db EXCEPT !.order_items =
                           UpdateRow(db.order_items, itemId,
                                     Supabase_orderUpdateData(updates,
                                         CHOOSE o \in FindOrder(stores, itemId) : TRUE,
                                         settings)) ]
                  ELSE db
    /\ lastOp' = Op("updateOrderItem", ok)
    /\ faults' = Fault(ok)
    /\ unseen' = Unseen(db')
    /\ UNCHANGED nextId
    /\ WriteFrame

\* lines 355-364
useSupabaseStore_deleteOrderItem(itemId, ok) ==
    /\ impl = "supabase"
    /\ ~isLoading
    /\ unseen < MaxUnseen
    /\ db' = IF ok
             THEN [ db EXCEPT !.order_items = Without(db.order_items, itemId) ]
             ELSE db
    /\ lastOp' = Op("deleteOrderItem", ok)
    /\ faults' = Fault(ok)
    /\ unseen' = Unseen(db')
    /\ UNCHANGED nextId
    /\ WriteFrame

\* lines 371-376: only the keys given are written
Supabase_settingsUpdateData(newSettings) ==
    LET column == [ exchangeRate |-> "exchange_rate",
                    internationalShipping |-> "international_shipping",
                    domesticShipping |-> "domestic_shipping",
                    targetProfit |-> "target_profit",
                    platformFeeRate |-> "platform_fee_rate" ]
    IN  [ c \in { column[k] : k \in DOMAIN newSettings } |->
            newSettings[CHOOSE k \in DOMAIN newSettings : column[k] = c] ]

\* lines 367-400: the memory is set before the write; with no settingsId a
\* row is inserted, its other columns taking the defaults of the table
useSupabaseStore_updateSettings(newSettings, ok) ==
    /\ impl = "supabase"
    /\ ~isLoading
    /\ unseen < MaxUnseen
    /\ settings' = Spread(settings, newSettings)
    /\ IF settingsId # 0
       THEN /\ db' = IF ok
                     THEN [ db EXCEPT !.settings =
                              UpdateSettingsRow(db.settings, settingsId,
                                  Supabase_settingsUpdateData(newSettings)) ]
                     ELSE db
            /\ UNCHANGED << settingsId, nextId >>
       ELSE IF ok
       THEN LET id == nextId.settings + 1
            IN  /\ db' = [ db EXCEPT !.settings =
                             Append(db.settings,
                                    Spread(DefaultSettingsRow(id),
                                           Supabase_settingsUpdateData(newSettings))) ]
                /\ settingsId' = id
                /\ nextId' = [ nextId EXCEPT !.settings = id ]
       ELSE UNCHANGED << db, settingsId, nextId >>
    /\ lastOp' = Op("updateSettings", ok)
    /\ faults' = Fault(ok)
    /\ unseen' = Unseen(db')
    /\ UNCHANGED << impl, inFlight, isLoading, stores, activeStoreId, localStorage >>

\* lines 406-410: the column written for one inventory item
Supabase_recalculatedInventory(item, s) ==
    [ selling_price_jpy |-> calculateSellingPrice(item.costPriceCNY, s) ]

\* lines 415-423: the columns written for one order
\* variant: the order takes the shipping of the settings, as the selling
\* price does
Unified_recalculatedOrder(order, s) ==
    LET converted ==
            calculateConvertedWithShipping3(order.costPriceCNY, s.exchangeRate,
                                            s.internationalShipping)
        profit == calculateProfit(order.actualPayment, converted)
    IN  [ converted_with_shipping |-> converted, profit |-> profit ]

Supabase_recalculatedOrder(order, s) ==
    LET converted == calculateConvertedWithShipping(order.costPriceCNY, s.exchangeRate)
        profit == calculateProfit(order.actualPayment, converted)
    IN  [ converted_with_shipping |-> converted, profit |-> profit ]

\* lines 404-424: the database after the writes of the sweep that did not
\* fail; every item of the memory is written
Supabase_sweep(d, ss, s, failedInv, failedOrd) ==
    [ d EXCEPT
        !.inventory_items =
            SweepRows(d.inventory_items,
                      DOMAIN AllInventory(ss) \ failedInv,
                      [ i \in DOMAIN AllInventory(ss) |->
                          Supabase_recalculatedInventory(AllInventory(ss)[i], s) ]),
        !.order_items =
            SweepRows(d.order_items,
                      DOMAIN AllOrders(ss) \ failedOrd,
                      [ i \in DOMAIN AllOrders(ss) |->
                          Supabase_recalculatedOrder(AllOrders(ss)[i], s) ]) ]

\* lines 402-428: the result of a write is not looked at, so a failed write
\* is passed over and the sweep goes on
useSupabaseStore_recalculateAllPrices(failedInv, failedOrd) ==
    /\ impl = "supabase"
    /\ ~isLoading
    /\ unseen < MaxUnseen
    /\ failedInv \subseteq DOMAIN AllInventory(stores)
    /\ failedOrd \subseteq DOMAIN AllOrders(stores)
    /\ Cardinality(failedInv) + Cardinality(failedOrd) <= MaxFaults - faults
    /\ db' = Supabase_sweep(db, stores, settings, failedInv, failedOrd)
    /\ faults' = faults + Cardinality(failedInv) + Cardinality(failedOrd)
    /\ lastOp' = Op("recalculateAllPrices", failedInv = {} /\ failedOrd = {})
    /\ unseen' = Unseen(db')
    /\ UNCHANGED nextId
    /\ WriteFrame

\* ------------------------------------------------------------------------
\* Next-state relation: the handlers of the hook the page is built on
\* ------------------------------------------------------------------------
\* one call of a handler with its arguments, on whichever hook is in use
Call_setActiveStoreId(id, ok) ==
    \/ useStore_setActiveStoreId(id, ok)
    \/ ok /\ useCloudStore_setActiveStoreId(id)
    \/ ok /\ useSupabaseStore_setActiveStoreId(id)

Call_fetchData(r, ok) ==
    \/ useCloudStore_fetchData(r, ok)
    \/ useSupabaseStore_fetchData(r, ok)

Call_addInventoryItem(item, ok) ==
    \/ useStore_addInventoryItem(item, ok)
    \/ useCloudStore_addInventoryItem(item, ok)
    \/ useSupabaseStore_addInventoryItem(item, ok)

Call_updateInventoryItem(itemId, updates, ok) ==
    \/ useStore_updateInventoryItem(itemId, updates, ok)
    \/ useCloudStore_updateInventoryItem(itemId, updates, ok)
    \/ useSupabaseStore_updateInventoryItem(itemId, updates, ok)

Call_deleteInventoryItem(itemId, ok) ==
    \/ useStore_deleteInventoryItem(itemId, ok)
    \/ useCloudStore_deleteInventoryItem(itemId, ok)
    \/ useSupabaseStore_deleteInventoryItem(itemId, ok)

Call_addOrderItem(item, createdAt, ok) ==
    \/ useStore_addOrderItem(item, createdAt, ok)
    \/ useCloudStore_addOrderItem(item, createdAt, ok)
    \/ useSupabaseStore_addOrderItem(item, createdAt, ok)

Call_updateOrderItem(itemId, updates, ok) ==
    \/ useStore_updateOrderItem(itemId, updates, ok)
    \/ useCloudStore_updateOrderItem(itemId, updates, ok)
    \/ useSupabaseStore_updateOrderItem(itemId, updates, ok)

Call_deleteOrderItem(itemId, ok) ==
    \/ useStore_deleteOrderItem(itemId, ok)
    \/ useCloudStore_deleteOrderItem(itemId, ok)
    \/ useSupabaseStore_deleteOrderItem(itemId, ok)

Call_updateSettings(newSettings, ok) ==
    \/ useStore_updateSettings(newSettings, ok)
    \/ useCloudStore_updateSettings(newSettings, ok)
    \/ useSupabaseStore_updateSettings(newSettings, ok)

\* failedInv and failedOrd are the writes of the sweep that fail; useStore has
\* the one write of its save effect, failing when failedInv is not empty
Call_recalculateAllPrices(failedInv, failedOrd) ==
    \/ failedOrd = {} /\ useStore_recalculateAllPrices(failedInv = {})
    \/ useCloudStore_recalculateAllPrices(failedInv, failedOrd)
    \/ useSupabaseStore_recalculateAllPrices(failedInv, failedOrd)

setActiveStoreId ==
    \E id \in StoreIds, ok \in Outcomes : Call_setActiveStoreId(id, ok)

fetchData ==
    \E r \in 0..nextId.settings, ok \in Outcomes : Call_fetchData(r, ok)

addInventoryItem ==
    \E item \in NewInventoryItems, ok \in Outcomes : Call_addInventoryItem(item, ok)

updateInventoryItem ==
    \E itemId \in InventoryIds, updates \in InventoryUpdates, ok \in Outcomes :
        Call_updateInventoryItem(itemId, updates, ok)

deleteInventoryItem ==
    \E itemId \in InventoryIds, ok \in Outcomes : Call_deleteInventoryItem(itemId, ok)

addOrderItem ==
    \E item \in NewOrderItems, createdAt \in OptDates, ok \in Outcomes :
        Call_addOrderItem(item, createdAt, ok)

updateOrderItem ==
    \E itemId \in OrderIds, updates \in OrderUpdates, ok \in Outcomes :
        Call_updateOrderItem(itemId, updates, ok)

deleteOrderItem ==
    \E itemId \in OrderIds, ok \in Outcomes : Call_deleteOrderItem(itemId, ok)

updateSettings ==
    \E newSettings \in SettingsUpdates, ok \in Outcomes :
        Call_updateSettings(newSettings, ok)

recalculateAllPrices ==
    \E failedInv \in FailingSubsets(InventoryIds),
       failedOrd \in FailingSubsets(OrderIds) :
        Call_recalculateAllPrices(failedInv, failedOrd)

Next ==
    \/ setActiveStoreId
    \/ fetchData
    \/ addInventoryItem
    \/ updateInventoryItem
    \/ deleteInventoryItem
    \/ addOrderItem
    \/ updateOrderItem
    \/ deleteOrderItem
    \/ updateSettings
    \/ recalculateAllPrices

\* ------------------------------------------------------------------------
\* Initial state: an installation that holds two stores and no items yet
\* ------------------------------------------------------------------------
InitStores == << EmptyStore(1), EmptyStore(2) >>

\* useStore after its load effect (lines 29-62) has read what was saved
InitLocal ==
    /\ impl = "local"
    /\ stores = InitStores
    /\ activeStoreId = 1
    /\ settings = defaultSettings
    /\ settingsId = 0
    /\ isLoading = FALSE
    /\ localStorage = [ data |-> [ stores |-> InitStores, activeStoreId |-> 1 ],
                        settings |-> defaultSettings ]
    /\ db = << >>
    /\ nextId = [ store |-> 2, inventory |-> 0, order |-> 0, settings |-> 0 ]

\* the tables of the migration with its default settings row and two stores
InitDb ==
    [ stores |-> << 1, 2 >>, inventory_items |-> << >>, order_items |-> << >>,
      settings |-> << DefaultSettingsRow(1) >> ]

\* a cloud hook as its useState calls leave it, before the first fetchData
InitCloud ==
    /\ impl \in { "cloud", "supabase" }
    /\ stores = << >>
    /\ activeStoreId = NoStore
    /\ settings = defaultSettings
    /\ settingsId = 0
    /\ isLoading = TRUE
    /\ localStorage = << >>
    /\ db = InitDb
    /\ nextId = [ store |-> 2, inventory |-> 0, order |-> 0, settings |-> 1 ]

Init ==
    /\ InitLocal \/ InitCloud
    /\ faults = 0
    /\ unseen = 0
    /\ lastOp = Op("mount", TRUE)
    /\ inFlight = Idle

Spec == Init /\ [][Next]_vars

\* ------------------------------------------------------------------------
\* What is stored: the memory of useStore, the rows of the cloud hooks
\* ------------------------------------------------------------------------
StoredInventory ==
    IF impl = "local" THEN AllInventory(stores)
    ELSE [ i \in DOMAIN db.inventory_items |-> toFrontendInventory(db.inventory_items[i]) ]

StoredOrders ==
    IF impl = "local" THEN AllOrders(stores)
    ELSE [ i \in DOMAIN db.order_items |-> toFrontendOrder(db.order_items[i]) ]

\* the store that holds a stored item
StoreOfInventory(i) ==
    IF impl = "local"
    THEN stores[CHOOSE k \in 1..Len(stores) : i \in DOMAIN stores[k].inventory].id
    ELSE db.inventory_items[i].store_id

StoreOfOrder(i) ==
    IF impl = "local"
    THEN stores[CHOOSE k \in 1..Len(stores) : i \in DOMAIN stores[k].orders].id
    ELSE db.order_items[i].store_id

\* the ids of the stores that exist
StoredStores ==
    IF impl = "local" THEN [ k \in 1..Len(stores) |-> stores[k].id ] ELSE db.stores

\* the memory of a cloud hook holds what the database holds
MemoryCurrent == impl = "local" \/ stores = StoresWithData(db)

\* the item is one the page shows: the active store of the memory holds it
ShownInventory(i) ==
    \E k \in 1..Len(stores) :
        stores[k].id = activeStoreId /\ i \in DOMAIN stores[k].inventory

ShownOrder(i) ==
    \E k \in 1..Len(stores) :
        stores[k].id = activeStoreId /\ i \in DOMAIN stores[k].orders

InventoryConsistent(item, s) ==
    item.sellingPriceJPY = calculateSellingPrice(item.costPriceCNY, s)

OrderConsistent(order, s) ==
    /\ order.convertedWithShipping =
         calculateConvertedWithShipping(order.costPriceCNY, s.exchangeRate)
    /\ order.profit = order.actualPayment - order.convertedWithShipping

PlainInventoryKeys == { "quantity" }
PlainOrderKeys == { "createdAt", "completedAt" }
DerivedInventoryKeys == { "sellingPriceJPY" }
DerivedOrderKeys == { "convertedWithShipping", "profit" }

\* ------------------------------------------------------------------------
\* Properties
\* ------------------------------------------------------------------------

\* C1: a recalculateAllPrices that runs to completion (every write of the
\* sweep succeeds) from a memory that holds what is stored leaves every
\* inventory item of every store with sellingPriceJPY =
\* calculateSellingPrice(costPriceCNY, S) and every order of every store with
\* convertedWithShipping = calculateConvertedWithShipping(costPriceCNY,
\* S.exchangeRate) and profit = actualPayment - convertedWithShipping, where S
\* is the settings of the hook at the call.
C1_RecalculateAllPricesReachesEveryStore ==
    [][ \A failedInv \in SUBSET InventoryIds, failedOrd \in SUBSET OrderIds :
          ( /\ lastOp' = Op("recalculateAllPrices", TRUE)
            /\ MemoryCurrent
            /\ Call_recalculateAllPrices(failedInv, failedOrd) )
          => /\ \A i \in DOMAIN StoredInventory' :
                  InventoryConsistent(StoredInventory'[i], settings)
             /\ \A i \in DOMAIN StoredOrders' :
                  OrderConsistent(StoredOrders'[i], settings)
             /\ impl = "local" => localStorage'.data.stores = stores' ]_vars

\* a sweep of useCloudStore has just rewritten an order of a store that is not
\* the active one: the row differs from the copy the memory still holds
C1_Witness ==
    /\ impl = "cloud"
    /\ lastOp = Op("recalculateAllPrices", TRUE)
    /\ \E i \in DOMAIN db.order_items :
        /\ db.order_items[i].store_id # activeStoreId
        /\ i \in DOMAIN AllOrders(stores)
        /\ AllOrders(stores)[i].convertedWithShipping
             # db.order_items[i].converted_with_shipping
        /\ OrderConsistent(StoredOrders[i], settings)

\* C2: in every reachable state every stored order has
\* profit = actualPayment - convertedWithShipping.
C2_ProfitIsPaymentMinusConverted ==
    \A i \in DOMAIN StoredOrders :
        StoredOrders[i].profit
            = StoredOrders[i].actualPayment - StoredOrders[i].convertedWithShipping

\* C3: updateInventoryItem(id, updates) with costPriceCNY = c in updates, on
\* an item that is stored (for useStore: in the active store; for the cloud
\* hooks: with the write succeeding), leaves the stored item with
\* costPriceCNY = c and sellingPriceJPY = calculateSellingPrice(c, settings at
\* the call), both in the one step.
C3_CostUpdateRecomputesSellingPrice ==
    [][ \A itemId \in InventoryIds, updates \in InventoryUpdates, ok \in BOOLEAN :
          ( /\ lastOp'.name = "updateInventoryItem"
            /\ Has(updates, "costPriceCNY")
            /\ itemId \in DOMAIN StoredInventory
            /\ IF impl = "local" THEN ShownInventory(itemId) ELSE ok
            /\ Call_updateInventoryItem(itemId, updates, ok) )
          => /\ itemId \in DOMAIN StoredInventory'
             /\ StoredInventory'[itemId].costPriceCNY = updates.costPriceCNY
             /\ StoredInventory'[itemId].sellingPriceJPY
                  = calculateSellingPrice(updates.costPriceCNY, settings) ]_vars

\* a cost update of a cloud hook has just changed the cost of a row: the row
\* holds a cost the memory does not hold yet, under settings that were changed
C3_Witness ==
    /\ impl # "local"
    /\ lastOp = Op("updateInventoryItem", TRUE)
    /\ settings.exchangeRate # defaultSettings.exchangeRate
    /\ \E i \in DOMAIN db.inventory_items :
        /\ i \in DOMAIN AllInventory(stores)
        /\ AllInventory(stores)[i].costPriceCNY # db.inventory_items[i].cost_price_cny
        /\ InventoryConsistent(StoredInventory[i], settings)

\* C4: updateOrderItem(id, updates) with costPriceCNY or actualPayment in
\* updates (one or both), on an order the page shows whose derived fields
\* were computed under some earlier exchange rate, with the memory holding
\* what is stored and the write succeeding, leaves the stored order with
\* convertedWithShipping = calculateConvertedWithShipping(its costPriceCNY,
\* the exchangeRate at the call) and profit = actualPayment -
\* convertedWithShipping, whatever the settings were before.
C4_SourceUpdateRecomputesBothDerivedFields ==
    [][ \A itemId \in OrderIds, updates \in OrderUpdates, ok \in BOOLEAN :
          ( /\ lastOp'.name = "updateOrderItem"
            /\ Has(updates, "costPriceCNY") \/ Has(updates, "actualPayment")
            /\ itemId \in DOMAIN StoredOrders
            /\ ShownOrder(itemId)
            /\ MemoryCurrent
            /\ \E r \in Inputs.exchangeRate :
                 OrderConsistent(StoredOrders[itemId], [ exchangeRate |-> r ])
            /\ impl = "local" \/ ok
            /\ Call_updateOrderItem(itemId, updates, ok) )
          => /\ itemId \in DOMAIN StoredOrders'
             /\ OrderConsistent(StoredOrders'[itemId], settings) ]_vars

\* C5: updateInventoryItem and updateOrderItem with updates that touch only
\* plain fields (quantity; createdAt, completedAt) leave sellingPriceJPY,
\* convertedWithShipping and profit of the stored item as they were, also
\* when the settings have changed since they were computed.
C5_PlainUpdateKeepsDerivedFields ==
    [][ /\ \A itemId \in InventoryIds, updates \in InventoryUpdates, ok \in BOOLEAN :
            ( /\ lastOp'.name = "updateInventoryItem"
              /\ DOMAIN updates \subseteq PlainInventoryKeys
              /\ itemId \in DOMAIN StoredInventory
              /\ Call_updateInventoryItem(itemId, updates, ok) )
            => /\ itemId \in DOMAIN StoredInventory'
               /\ StoredInventory'[itemId].sellingPriceJPY
                    = StoredInventory[itemId].sellingPriceJPY
        /\ \A itemId \in OrderIds, updates \in OrderUpdates, ok \in BOOLEAN :
            ( /\ lastOp'.name = "updateOrderItem"
              /\ DOMAIN updates \subseteq PlainOrderKeys
              /\ itemId \in DOMAIN StoredOrders
              /\ Call_updateOrderItem(itemId, updates, ok) )
            => /\ itemId \in DOMAIN StoredOrders'
               /\ StoredOrders'[itemId].convertedWithShipping
                    = StoredOrders[itemId].convertedWithShipping
               /\ StoredOrders'[itemId].profit = StoredOrders[itemId].profit ]_vars

\* an update of a cloud hook has just changed completedAt of an order (the
\* memory still holds the date from before) whose derived fields are those of
\* the exchange rate before the settings were changed
C5_Witness ==
    /\ impl # "local"
    /\ lastOp = Op("updateOrderItem", TRUE)
    /\ \E i \in DOMAIN db.order_items :
        /\ i \in DOMAIN AllOrders(stores)
        /\ AllOrders(stores)[i].completedAt # db.order_items[i].completed_at
        /\ AllOrders(stores)[i].costPriceCNY = db.order_items[i].cost_price_cny
        /\ AllOrders(stores)[i].actualPayment = db.order_items[i].actual_payment
        /\ ~OrderConsistent(StoredOrders[i], settings)
        /\ OrderConsistent(StoredOrders[i], defaultSettings)

\* C6: recalculateAllPrices changes only derived fields: every stored item
\* keeps its id, its store, quantity, costPriceCNY, actualPayment, createdAt
\* and completedAt, and no item and no store is added or removed.
C6_RecalculateAllPricesChangesOnlyDerivedFields ==
    [][ \A failedInv \in SUBSET InventoryIds, failedOrd \in SUBSET OrderIds :
          ( /\ lastOp'.name = "recalculateAllPrices"
            /\ Call_recalculateAllPrices(failedInv, failedOrd) )
          => /\ StoredStores' = StoredStores
             /\ DOMAIN StoredInventory' = DOMAIN StoredInventory
             /\ DOMAIN StoredOrders' = DOMAIN StoredOrders
             /\ \A i \in DOMAIN StoredInventory :
                  /\ i \in DOMAIN StoredInventory =>
                        StoreOfInventory(i)' = StoreOfInventory(i)
                  /\ StoredInventory'[i].quantity = StoredInventory[i].quantity
                  /\ StoredInventory'[i].costPriceCNY = StoredInventory[i].costPriceCNY
             /\ \A i \in DOMAIN StoredOrders :
                  /\ i \in DOMAIN StoredOrders =>
                        StoreOfOrder(i)' = StoreOfOrder(i)
                  /\ StoredOrders'[i].costPriceCNY = StoredOrders[i].costPriceCNY
                  /\ StoredOrders'[i].actualPayment = StoredOrders[i].actualPayment
                  /\ StoredOrders'[i].createdAt = StoredOrders[i].createdAt
                  /\ StoredOrders'[i].completedAt = StoredOrders[i].completedAt ]_vars

\* a sweep of useCloudStore has just rewritten the price of an inventory item
\* (the memory still holds the price from before) and the derived fields of
\* no order
C6_Witness ==
    /\ impl = "cloud"
    /\ lastOp = Op("recalculateAllPrices", TRUE)
    /\ \E i \in DOMAIN db.inventory_items :
        /\ i \in DOMAIN AllInventory(stores)
        /\ AllInventory(stores)[i].sellingPriceJPY
             # db.inventory_items[i].selling_price_jpy
        /\ AllInventory(stores)[i].quantity = db.inventory_items[i].quantity

\* the stored state after one more sweep, every write succeeding
SweptAgain ==
    CASE impl = "local" -> Local_recalculateAll(stores, settings)
      [] impl = "cloud" -> Cloud_sweep(db, stores, settings, {}, {})
      [] impl = "supabase" -> Supabase_sweep(db, stores, settings, {}, {})

\* C7: recalculateAllPrices is idempotent: after a sweep that ran to
\* completion, a second sweep with the settings and the source fields
\* unchanged leaves the stores, the items and their derived fields exactly as
\* the first sweep left them.
C7_RecalculateAllPricesIsIdempotent ==
    ( lastOp.name = "recalculateAllPrices" /\ (impl = "local" \/ lastOp.ok) )
    => SweptAgain = (IF impl = "local" THEN stores ELSE db)

\* a sweep of useSupabaseStore has just rewritten the derived fields of an
\* order: the row differs from the copy the memory still holds
C7_Witness ==
    /\ impl = "supabase"
    /\ lastOp = Op("recalculateAllPrices", TRUE)
    /\ \E i \in DOMAIN db.order_items :
        /\ i \in DOMAIN AllOrders(stores)
        /\ AllOrders(stores)[i].profit # db.order_items[i].profit

\* C8: addInventoryItem stores the new item with sellingPriceJPY =
\* calculateSellingPrice(costPriceCNY, settings at the call), and addOrderItem
\* stores the new order with convertedWithShipping =
\* calculateConvertedWithShipping(costPriceCNY, exchangeRate at the call) and
\* profit = actualPayment - convertedWithShipping.
C8_CreationDerivesDependentFields ==
    [][ /\ \A item \in NewInventoryItems, ok \in BOOLEAN :
            ( /\ lastOp'.name = "addInventoryItem"
              /\ impl = "local" \/ lastOp'.ok
              /\ Call_addInventoryItem(item, ok) )
            => LET id == nextId'.inventory
               IN  /\ id \notin DOMAIN StoredInventory
                   /\ id \in DOMAIN StoredInventory'
                   /\ StoredInventory'[id].costPriceCNY = item.costPriceCNY
                   /\ InventoryConsistent(StoredInventory'[id], settings)
        /\ \A item \in NewOrderItems, createdAt \in OptDates, ok \in BOOLEAN :
            ( /\ lastOp'.name = "addOrderItem"
              /\ impl = "local" \/ lastOp'.ok
              /\ Call_addOrderItem(item, createdAt, ok) )
            => LET id == nextId'.order
               IN  /\ id \notin DOMAIN StoredOrders
                   /\ id \in DOMAIN StoredOrders'
                   /\ StoredOrders'[id].costPriceCNY = item.costPriceCNY
                   /\ StoredOrders'[id].actualPayment = item.actualPayment
                   /\ OrderConsistent(StoredOrders'[id], settings) ]_vars

\* an order has just been added under an exchange rate that was changed from
\* the default, and it is stored with the derived fields of the changed rate
C8_Witness ==
    /\ lastOp = Op("addOrderItem", TRUE)
    /\ settings.exchangeRate # defaultSettings.exchangeRate
    /\ \E i \in DOMAIN StoredOrders :
        /\ OrderConsistent(StoredOrders[i], settings)
        /\ ~OrderConsistent(StoredOrders[i], defaultSettings)

\* C9: updateInventoryItem with only sellingPriceJPY in updates, and
\* updateOrderItem with only convertedWithShipping or profit in updates, do
\* not store the value supplied: the derived fields of the stored item stay as
\* they were.
C9_DerivedFieldsAreNotSettable ==
    [][ /\ \A itemId \in InventoryIds, updates \in InventoryUpdates, ok \in BOOLEAN :
            ( /\ lastOp'.name = "updateInventoryItem"
              /\ DOMAIN updates \subseteq DerivedInventoryKeys
              /\ itemId \in DOMAIN StoredInventory
              /\ Call_updateInventoryItem(itemId, updates, ok) )
            => /\ itemId \in DOMAIN StoredInventory'
               /\ StoredInventory'[itemId].sellingPriceJPY
                    = StoredInventory[itemId].sellingPriceJPY
        /\ \A itemId \in OrderIds, updates \in OrderUpdates, ok \in BOOLEAN :
            ( /\ lastOp'.name = "updateOrderItem"
              /\ DOMAIN updates \subseteq DerivedOrderKeys
              /\ itemId \in DOMAIN StoredOrders
              /\ Call_updateOrderItem(itemId, updates, ok) )
            => /\ itemId \in DOMAIN StoredOrders'
               /\ StoredOrders'[itemId].convertedWithShipping
                    = StoredOrders[itemId].convertedWithShipping
               /\ StoredOrders'[itemId].profit = StoredOrders[itemId].profit ]_vars

\* what is persisted: the value under the storage key, the rows of the tables
Persisted == IF impl = "local" THEN localStorage.data.stores ELSE db

\* C10: an item update that changes a source field is atomic: when its
\* persistence write fails, neither what is persisted nor the copy of the
\* item in memory is changed.
C10_FailedWriteLeavesMemoryUnchanged ==
    [][ /\ \A itemId \in InventoryIds, updates \in InventoryUpdates :
            ( /\ lastOp' = Op("updateInventoryItem", FALSE)
              /\ Has(updates, "costPriceCNY")
              /\ Call_updateInventoryItem(itemId, updates, FALSE) )
            => /\ Persisted' = Persisted
               /\ stores' = stores
        /\ \A itemId \in OrderIds, updates \in OrderUpdates :
            ( /\ lastOp' = Op("updateOrderItem", FALSE)
              /\ Has(updates, "costPriceCNY") \/ Has(updates, "actualPayment")
              /\ Call_updateOrderItem(itemId, updates, FALSE) )
            => /\ Persisted' = Persisted
               /\ stores' = stores ]_vars

\* ------------------------------------------------------------------------
\* The formulas of types/inventory.ts applied by themselves
\* ------------------------------------------------------------------------
\* costs in hundredths: 0, 0.01, 10.00, 50.00, 100.00, 100.01, 256.04
FormulaInputs ==
    [ costCNY |-> {0, 1, 1000, 5000, 10000, 10001, 25604},
      exchangeRate |-> {1, 20, 23, 25},
      shipping |-> {0, 500},
      actualPayment |-> {0, 3000, 4000},
      convertedWithShipping |-> {2150, 3500, 5000} ]

\* valid settings: non-negative amounts, platformFeeRate in [0, 1); the
\* amounts of the default settings, or none
FormulaSettings ==
    { [ exchangeRate |-> r,
        internationalShipping |-> a.internationalShipping,
        domesticShipping |-> a.domesticShipping,
        targetProfit |-> a.targetProfit,
        platformFeeRate |-> f ] :
      r \in FormulaInputs.exchangeRate,
      a \in { defaultSettings,
              [ internationalShipping |-> 0, domesticShipping |-> 0,
                targetProfit |-> 0 ] },
      f \in {0, 22, 30} }

Applied(name, args, result) ==
    [ name |-> name, ok |-> TRUE, args |-> args, result |-> result ]

FormulaFrame ==
    UNCHANGED << impl, inFlight, stores, activeStoreId, settings, settingsId, isLoading,
                 localStorage, db, nextId, faults, unseen >>

Apply_calculateSellingPrice ==
    /\ \E costCNY \in FormulaInputs.costCNY :
        lastOp' = Applied("calculateSellingPrice",
                          [ costCNY |-> costCNY, settings |-> settings ],
                          calculateSellingPrice(costCNY, settings))
    /\ FormulaFrame

Apply_calculateConvertedWithShipping3 ==
    /\ \E costCNY \in FormulaInputs.costCNY, exchangeRate \in FormulaInputs.exchangeRate,
          shipping \in FormulaInputs.shipping :
        lastOp' = Applied("calculateConvertedWithShipping",
                          [ costCNY |-> costCNY, exchangeRate |-> exchangeRate,
                            shipping |-> shipping ],
                          calculateConvertedWithShipping3(costCNY, exchangeRate,
                                                          shipping))
    /\ FormulaFrame

\* the call without its third argument
Apply_calculateConvertedWithShipping ==
    /\ \E costCNY \in FormulaInputs.costCNY, exchangeRate \in FormulaInputs.exchangeRate :
        lastOp' = Applied("calculateConvertedWithShipping",
                          [ costCNY |-> costCNY, exchangeRate |-> exchangeRate ],
                          calculateConvertedWithShipping(costCNY, exchangeRate))
    /\ FormulaFrame

Apply_calculateProfit ==
    /\ \E actualPayment \in FormulaInputs.actualPayment,
          convertedWithShipping \in FormulaInputs.convertedWithShipping :
        lastOp' = Applied("calculateProfit",
                          [ actualPayment |-> actualPayment,
                            convertedWithShipping |-> convertedWithShipping ],
                          calculateProfit(actualPayment, convertedWithShipping))
    /\ FormulaFrame

FormulaNext ==
    \/ Apply_calculateSellingPrice
    \/ Apply_calculateConvertedWithShipping3
    \/ Apply_calculateConvertedWithShipping
    \/ Apply_calculateProfit

\* a page on useStore with any valid settings, no formula applied yet
FormulaInit ==
    /\ impl = "local"
    /\ stores = InitStores
    /\ activeStoreId = 1
    /\ settings \in FormulaSettings
    /\ settingsId = 0
    /\ isLoading = FALSE
    /\ localStorage = [ data |-> [ stores |-> InitStores, activeStoreId |-> 1 ],
                        settings |-> settings ]
    /\ db = << >>
    /\ nextId = [ store |-> 2, inventory |-> 0, order |-> 0, settings |-> 0 ]
    /\ faults = 0
    /\ unseen = 0
    /\ lastOp = Op("mount", TRUE)
    /\ inFlight = Idle

FormulaSpec == FormulaInit /\ [][FormulaNext]_vars

\* costCNY * exchangeRate + internationalShipping + domesticShipping +
\* targetProfit, in hundredths of a yen
TotalCostHundredths(costCNY, s) ==
    costCNY * s.exchangeRate
        + 100 * (s.internationalShipping + s.domesticShipping + s.targetProfit)

\* p is the ceiling of n / d, for d > 0: the least whole number not below it
IsCeilingOf(p, n, d) == p * d >= n /\ (p - 1) * d < n

\* C11: for all costCNY >= 0 and all valid settings,
\* calculateSellingPrice(costCNY, settings) is the ceiling of
\* (costCNY * exchangeRate + internationalShipping + domesticShipping +
\* targetProfit) / (1 - platformFeeRate); with the default settings and
\* costCNY = 100 it is 13206.
C11_SellingPriceIsCeilingOfFormula ==
    lastOp.name = "calculateSellingPrice"
    => /\ IsCeilingOf(lastOp.result,
                      TotalCostHundredths(lastOp.args.costCNY, lastOp.args.settings),
                      100 - lastOp.args.settings.platformFeeRate)
       /\ ( lastOp.args.costCNY = 10000 /\ lastOp.args.settings = defaultSettings )
            => lastOp.result = 13206

\* C12: calculateConvertedWithShipping(cost, rate, shipping) is the ceiling
\* of cost * rate + shipping, and with shipping omitted it uses 1000:
\* calculateConvertedWithShipping(10, 20) = 1200 and
\* calculateConvertedWithShipping(50, 23) = 2150.
C12_ConvertedIsCeilingWithDefaultShipping ==
    lastOp.name = "calculateConvertedWithShipping"
    => LET shipping == IF Has(lastOp.args, "shipping") THEN lastOp.args.shipping
                       ELSE 1000
       IN  /\ IsCeilingOf(lastOp.result,
                          lastOp.args.costCNY * lastOp.args.exchangeRate
                            + 100 * shipping,
                          100)
           /\ ( ~ Has(lastOp.args, "shipping") /\ lastOp.args.costCNY = 1000
                    /\ lastOp.args.exchangeRate = 20 )
                => lastOp.result = 1200
           /\ ( ~ Has(lastOp.args, "shipping") /\ lastOp.args.costCNY = 5000
                    /\ lastOp.args.exchangeRate = 23 )
                => lastOp.result = 2150

\* C13: calculateProfit(a, b) is a - b exactly for whole numbers a and b,
\* negative results included: nothing is clamped and nothing is rounded.
C13_ProfitIsExactDifference ==
    lastOp.name = "calculateProfit"
    => lastOp.result + lastOp.args.convertedWithShipping
         = lastOp.args.actualPayment

\* calculateProfit has been applied to a payment below the converted cost
C13_Witness ==
    /\ lastOp.name = "calculateProfit"
    /\ lastOp.args.actualPayment < lastOp.args.convertedWithShipping
    /\ lastOp.result < 0

\* C14: for all cost >= 0 and all valid settings with exchangeRate > 0,
\* calculateSellingPrice(cost, settings) >= cost * exchangeRate.
C14_SellingPriceCoversConvertedCost ==
    ( /\ lastOp.name = "calculateSellingPrice"
      /\ lastOp.args.costCNY >= 0
      /\ lastOp.args.settings.exchangeRate > 0 )
    => 100 * lastOp.result
         >= lastOp.args.costCNY * lastOp.args.settings.exchangeRate

\* calculateSellingPrice has been applied to a positive cost under settings
\* that add nothing to the converted cost: the price is less than one yen
\* above it
C14_Witness ==
    /\ lastOp.name = "calculateSellingPrice"
    /\ lastOp.args.costCNY > 0
    /\ lastOp.args.settings.platformFeeRate = 0
    /\ TotalCostHundredths(lastOp.args.costCNY, lastOp.args.settings)
         = lastOp.args.costCNY * lastOp.args.settings.exchangeRate
    /\ 100 * (lastOp.result - 1)
         < lastOp.args.costCNY * lastOp.args.settings.exchangeRate

\* C15 as stated: holding the settings fixed, for every pair of costs
\* c1 < c2 the selling price of c2 is strictly greater than that of c1; and
\* holding the cost and the other settings fixed, for every pair of exchange
\* rates r1 < r2 the selling price under r2 is strictly greater than under r1.
C15_SellingPriceStrictlyMonotone ==
    lastOp.name = "calculateSellingPrice"
    => /\ \A c2 \in FormulaInputs.costCNY :
            lastOp.args.costCNY < c2
            => lastOp.result < calculateSellingPrice(c2, lastOp.args.settings)
       /\ \A r2 \in FormulaInputs.exchangeRate :
            lastOp.args.settings.exchangeRate < r2
            => lastOp.result
                 < calculateSellingPrice(lastOp.args.costCNY,
                     [ lastOp.args.settings EXCEPT !.exchangeRate = r2 ])

\* C15 amended: the selling price never decreases when the cost or the
\* exchange rate increases; it increases strictly from one whole-yuan cost
\* to a greater one (the exchange rate being a whole number >= 1), and from
\* one whole-number exchange rate to a greater one when the cost is a whole
\* number of yuan >= 1.
C15_SellingPriceMonotone ==
    lastOp.name = "calculateSellingPrice"
    => LET c1 == lastOp.args.costCNY
           s == lastOp.args.settings
       IN  /\ \A c2 \in FormulaInputs.costCNY :
                c1 < c2
                => /\ lastOp.result <= calculateSellingPrice(c2, s)
                   /\ ( c1 % 100 = 0 /\ c2 % 100 = 0 )
                        => lastOp.result < calculateSellingPrice(c2, s)
           /\ \A r2 \in FormulaInputs.exchangeRate :
                s.exchangeRate < r2
                => /\ lastOp.result
                        <= calculateSellingPrice(c1, [ s EXCEPT !.exchangeRate = r2 ])
                   /\ ( c1 % 100 = 0 /\ c1 >= 100 )
                        => lastOp.result
                             < calculateSellingPrice(c1, [ s EXCEPT !.exchangeRate = r2 ])

\* calculateSellingPrice has been applied to a cost for which a greater cost
\* of the domain has the same price, and to a cost of zero
C15_Witness ==
    /\ lastOp.name = "calculateSellingPrice"
    /\ \E c2 \in FormulaInputs.costCNY :
        /\ lastOp.args.costCNY < c2
        /\ lastOp.result = calculateSellingPrice(c2, lastOp.args.settings)

\* ------------------------------------------------------------------------
\* components/SettingsPanel.tsx: the settings form over a store of orders
\* ------------------------------------------------------------------------
\* what the inputs of the form hand to handleChange: whole numbers of yen,
\* and the fee in percent divided by 100 (the input allows up to 100)
PanelUpdates ==
    { [internationalShipping |-> v] : v \in {1000, 2000} }
        \cup { [domesticShipping |-> v] : v \in {1000, 500} }
        \cup { [targetProfit |-> v] : v \in {6000, 7000} }
        \cup { [platformFeeRate |-> f] : f \in {22, 100} }

\* lines 20-22: handleChange hands the value to updateSettings as it is
SettingsPanel_handleChange ==
    \E newSettings \in PanelUpdates, ok \in Outcomes :
        Call_updateSettings(newSettings, ok)

PanelNext ==
    \/ fetchData
    \/ addOrderItem
    \/ SettingsPanel_handleChange
    \/ recalculateAllPrices

PanelSpec == Init /\ [][PanelNext]_vars

\* C16: the two shipping models stay separate: changing
\* internationalShipping, domesticShipping, targetProfit or platformFeeRate
\* and then running recalculateAllPrices leaves the convertedWithShipping
\* and the profit of every order unchanged.
C16_OrdersIgnoreSellingPriceSettings ==
    [][ \A failedInv \in SUBSET InventoryIds, failedOrd \in SUBSET OrderIds :
            ( /\ lastOp'.name = "recalculateAllPrices"
              /\ Call_recalculateAllPrices(failedInv, failedOrd) )
            => \A i \in DOMAIN StoredOrders :
                /\ i \in DOMAIN StoredOrders'
                /\ StoredOrders'[i].convertedWithShipping
                     = StoredOrders[i].convertedWithShipping
                /\ StoredOrders'[i].profit = StoredOrders[i].profit ]_vars

\* a sweep has rewritten an order after each of the four settings of the
\* selling price was changed from its default
C16_Witness ==
    /\ lastOp = Op("recalculateAllPrices", TRUE)
    /\ settings.internationalShipping # defaultSettings.internationalShipping
    /\ settings.domesticShipping # defaultSettings.domesticShipping
    /\ settings.targetProfit # defaultSettings.targetProfit
    /\ settings.platformFeeRate # defaultSettings.platformFeeRate
    /\ DOMAIN StoredOrders # {}

\* C17: in every reachable state the settings satisfy platformFeeRate < 1:
\* an updateSettings call that would set platformFeeRate >= 1 is rejected
\* and leaves the settings unchanged, so that calculateSellingPrice is never
\* called with a zero or negative divisor 1 - platformFeeRate.
C17_PlatformFeeRateBelowOne ==
    settings.platformFeeRate < 100

\* ------------------------------------------------------------------------
\* The forms of the page: components/AddInventoryDialog.tsx,
\* components/InventoryTable.tsx, AddOrderDialog and components/OrderTable.tsx.
\* A number field hands its text to parseInt or parseFloat; a product name is
\* the sequence of its characters.
\* ------------------------------------------------------------------------
\* what parseInt or parseFloat makes of the texts of a field: << >> for NaN
\* (an empty or non-numeric text), << v >> for the number v
Parsed(values) == { << >> } \cup { << v >> : v \in values }

\* parseInt(text) || d and parseFloat(text) || d: NaN and 0 are falsy
Or(parsed, d) == IF parsed = << >> \/ parsed[1] = 0 THEN d ELSE parsed[1]

\* String.prototype.trim
RECURSIVE Trim(_)
Trim(s) ==
    IF s = << >> THEN s
    ELSE IF Head(s) = " " THEN Trim(Tail(s))
    ELSE IF s[Len(s)] = " " THEN Trim(SubSeq(s, 1, Len(s) - 1))
    ELSE s

\* the texts typed into the fields in a run
Typed ==
    [ productName |-> { << >>, << " " >>, << "a" >>, << " ", "a", " " >> },
      quantity |-> Parsed({ -2, 0, 3 }),
      costPriceCNY |-> Parsed({ -5000, 0, 5000 }),
      actualPayment |-> Parsed({ 3000 }),
      createdAt |-> { NoDate, "d1" },
      completedAt |-> { NoDate, "d2" },
      monthDate |-> { "m15" } ]

\* AddInventoryDialog: newItem as the onChange handlers of lines 173, 207 and
\* 219 leave it, starting from emptyItem (lines 33-40)
AddInventoryDialog_newItems ==
    { [ productName |-> n, quantity |-> Or(q, 1), costPriceCNY |-> Or(c, 0) ] :
        n \in Typed.productName, q \in Typed.quantity, c \in Typed.costPriceCNY }

NameOnly_accepts(newItem) == Len(Trim(newItem.productName)) > 0

\* line 91: the condition of handleSubmit
AddInventoryDialog_accepts(newItem) ==
    Len(Trim(newItem.productName)) > 0 /\ newItem.costPriceCNY > 0

\* lines 90-96
AddInventoryDialog_handleSubmit(newItem, ok) ==
    IF AddInventoryDialog_accepts(newItem)
    THEN Call_addInventoryItem([ quantity |-> newItem.quantity,
                                 costPriceCNY |-> newItem.costPriceCNY ], ok)
    ELSE /\ ~isLoading
         /\ ok
         /\ lastOp' = Op("AddInventoryDialog.handleSubmit", TRUE)
         /\ UNCHANGED << impl, inFlight, stores, activeStoreId, settings, settingsId,
                         isLoading, localStorage, db, nextId, faults, unseen >>

\* InventoryTable.tsx lines 167 and 176: the quantity and cost cells of a row
\* of the active store
InventoryTable_onBlur ==
    \E itemId \in InventoryIds, ok \in Outcomes :
        /\ ShownInventory(itemId)
        /\ \/ \E q \in Typed.quantity :
                Call_updateInventoryItem(itemId, [ quantity |-> Or(q, 0) ], ok)
           \/ \E c \in Typed.costPriceCNY :
                Call_updateInventoryItem(itemId, [ costPriceCNY |-> Or(c, 0) ], ok)

\* AddOrderDialog: newItem as the onChange and onSelect handlers of its
\* fields leave it, starting from emptyItem (part_001 lines 30-48)
AddOrderDialog_newItems ==
    { [ productName |-> n, costPriceCNY |-> Or(c, 0), actualPayment |-> Or(a, 0),
        createdAt |-> d, completedAt |-> e ] :
        n \in { << >>, << "a" >> }, c \in Typed.costPriceCNY,
        a \in Typed.actualPayment, d \in Typed.createdAt, e \in Typed.completedAt }

\* variant: the order is always dated by the month on display
Undated_handleSubmit(newItem, monthDate, ok) ==
    IF Len(Trim(newItem.productName)) > 0 /\ newItem.costPriceCNY > 0
    THEN Call_addOrderItem(
             [ costPriceCNY |-> newItem.costPriceCNY,
               actualPayment |-> newItem.actualPayment,
               createdAt |-> monthDate,
               completedAt |-> monthDate ],
             monthDate, ok)
    ELSE /\ ~isLoading
         /\ ok
         /\ lastOp' = Op("AddOrderDialog.handleSubmit", TRUE)
         /\ UNCHANGED << impl, inFlight, stores, activeStoreId, settings, settingsId,
                         isLoading, localStorage, db, nextId, faults, unseen >>

\* AddOrderDialog (part_001 lines 99-113): the order is dated by its own date
\* field or, with that empty, by the 15th of the month on display
AddOrderDialog_handleSubmit(newItem, monthDate, ok) ==
    LET orderDate == OrElse(newItem.createdAt, monthDate)
    IN  IF Len(Trim(newItem.productName)) > 0 /\ newItem.costPriceCNY > 0
        THEN Call_addOrderItem(
                 [ costPriceCNY |-> newItem.costPriceCNY,
                   actualPayment |-> newItem.actualPayment,
                   createdAt |-> orderDate,
                   completedAt |-> OrElse(newItem.completedAt, orderDate) ],
                 orderDate, ok)
        ELSE /\ ~isLoading
             /\ ok
             /\ lastOp' = Op("AddOrderDialog.handleSubmit", TRUE)
             /\ UNCHANGED << impl, inFlight, stores, activeStoreId, settings, settingsId,
                             isLoading, localStorage, db, nextId, faults, unseen >>

\* OrderTable lines 219 and 232: the cost and payment cells of a row of the
\* active store
OrderTable_onBlur ==
    \E itemId \in OrderIds, ok \in Outcomes :
        /\ ShownOrder(itemId)
        /\ \/ \E c \in Typed.costPriceCNY :
                Call_updateOrderItem(itemId, [ costPriceCNY |-> Or(c, 0) ], ok)
           \/ \E a \in Typed.actualPayment :
                Call_updateOrderItem(itemId, [ actualPayment |-> Or(a, 0) ], ok)

\* pages/Index.tsx: the inventory and order tables with their dialogs
FormNext ==
    \/ fetchData
    \/ \E newItem \in AddInventoryDialog_newItems, ok \in Outcomes :
           AddInventoryDialog_handleSubmit(newItem, ok)
    \/ InventoryTable_onBlur
    \/ \E newItem \in AddOrderDialog_newItems, monthDate \in Typed.monthDate,
          ok \in Outcomes :
           AddOrderDialog_handleSubmit(newItem, monthDate, ok)
    \/ OrderTable_onBlur

FormSpec == Init /\ [][FormNext]_vars

\* what a step may not touch when it is to change no store, item or setting
Kept == << stores, activeStoreId, settings, settingsId, localStorage, db >>

\* ------------------------------------------------------------------------
\* C18: in every reachable state every stored inventory item has a quantity
\* of at least 0 and a cost of at least 0, and every stored order has a cost
\* of at least 0.
\* ------------------------------------------------------------------------
C18_StoredAmountsNonNegative ==
    /\ \A i \in DOMAIN StoredInventory :
          StoredInventory[i].quantity >= 0 /\ StoredInventory[i].costPriceCNY >= 0
    /\ \A i \in DOMAIN StoredOrders : StoredOrders[i].costPriceCNY >= 0

\* ------------------------------------------------------------------------
\* C19: an inventory item comes into being only by a submit of the add
\* dialog whose product name is non-empty after trimming and whose cost is
\* above 0; a submit that fails this creates no record and changes no store,
\* item or setting.
\* ------------------------------------------------------------------------
C19_InventoryCreatedOnlyFromValidForm ==
    [][ /\ DOMAIN StoredInventory' # DOMAIN StoredInventory =>
              \E newItem \in AddInventoryDialog_newItems, ok \in BOOLEAN :
                  /\ Len(Trim(newItem.productName)) > 0
                  /\ newItem.costPriceCNY > 0
                  /\ AddInventoryDialog_handleSubmit(newItem, ok)
        /\ \A newItem \in AddInventoryDialog_newItems, ok \in BOOLEAN :
              ( /\ ~(Len(Trim(newItem.productName)) > 0 /\ newItem.costPriceCNY > 0)
                /\ AddInventoryDialog_handleSubmit(newItem, ok) )
              => /\ UNCHANGED Kept
                 /\ StoredInventory' = StoredInventory
                 /\ StoredOrders' = StoredOrders ]_vars

\* a submit has been turned down while the store holds an item that an
\* earlier submit created
C19_Witness ==
    /\ lastOp.name = "AddInventoryDialog.handleSubmit"
    /\ DOMAIN StoredInventory # {}

\* ------------------------------------------------------------------------
\* C20: a submit of the add dialog with a quantity of 0 or less is turned
\* down: no record is created and no state changes.
\* ------------------------------------------------------------------------
C20_NonPositiveQuantityRejected ==
    [][ \A newItem \in AddInventoryDialog_newItems, ok \in BOOLEAN :
            ( /\ newItem.quantity <= 0
              /\ AddInventoryDialog_handleSubmit(newItem, ok) )
            => /\ UNCHANGED Kept
               /\ StoredInventory' = StoredInventory ]_vars

\* ------------------------------------------------------------------------
\* An installation in use: two stores that hold items, all of them added
\* under the default settings, and (cloud hooks) the first fetchData done
\* ------------------------------------------------------------------------
StockedDb ==
    LET inventory(store, q, c) ==
            Cloud_newInventoryRow(store, [ quantity |-> q, costPriceCNY |-> c ],
                                  defaultSettings)
        order(store, c, a) ==
            Cloud_newOrderRow(store,
                              [ costPriceCNY |-> c, actualPayment |-> a,
                                createdAt |-> NoDate, completedAt |-> NoDate ],
                              "d1", defaultSettings)
    IN  [ stores |-> << 1, 2 >>,
          inventory_items |-> (1 :> inventory(1, 1, 5000)) @@ (2 :> inventory(1, 2, 10000))
                                 @@ (3 :> inventory(2, 1, 10000)),
          order_items |-> (1 :> order(1, 5000, 3000)) @@ (2 :> order(2, 10000, 4000)),
          settings |-> << DefaultSettingsRow(1) >> ]

StockedInit ==
    /\ impl \in { "local", "cloud", "supabase" }
    /\ stores = StoresWithData(StockedDb)
    /\ activeStoreId = 1
    /\ settings = defaultSettings
    /\ settingsId = IF impl = "local" THEN 0 ELSE 1
    /\ isLoading = FALSE
    /\ localStorage = IF impl = "local"
                      THEN [ data |-> [ stores |-> stores, activeStoreId |-> 1 ],
                             settings |-> defaultSettings ]
                      ELSE << >>
    /\ db = IF impl = "local" THEN << >> ELSE StockedDb
    /\ nextId = [ store |-> 2, inventory |-> 3, order |-> 2,
                  settings |-> IF impl = "local" THEN 0 ELSE 1 ]
    /\ faults = 0
    /\ unseen = 0
    /\ lastOp = Op("mount", TRUE)
    /\ inFlight = Idle

\* ------------------------------------------------------------------------
\* addStore and deleteStore, called from the sidebar (components/Sidebar.tsx:
\* the delete button of a store is offered while the list shown holds more
\* than one store)
\* ------------------------------------------------------------------------
\* how many stores are ever created in a run
MaxStores == 3

\* useStore.ts lines 88-97
useStore_addStore(saved) ==
    /\ impl = "local"
    /\ nextId.store < MaxStores
    /\ LET id == nextId.store + 1
           ss == Append(stores, EmptyStore(id))
       IN  /\ stores' = ss
           /\ activeStoreId' = id
           /\ nextId' = [ nextId EXCEPT !.store = id ]
           /\ localStorage' = SaveData(saved, ss, id)
    /\ lastOp' = Op("addStore", saved)
    /\ LocalFrame(saved)
    /\ UNCHANGED settings

\* useStore.ts lines 103-111
useStore_deleteStore(storeId, saved) ==
    /\ impl = "local"
    /\ Len(stores) > 1
    /\ \E k \in 1..Len(stores) : stores[k].id = storeId
    /\ LET keep(st) == st.id # storeId
           newStores == SelectSeq(stores, keep)
           active == IF activeStoreId = storeId /\ Len(newStores) > 0
                     THEN newStores[1].id ELSE activeStoreId
       IN  /\ stores' = newStores
           /\ activeStoreId' = active
           /\ localStorage' = SaveData(saved, newStores, active)
    /\ lastOp' = Op("deleteStore", saved)
    /\ LocalFrame(saved)
    /\ UNCHANGED << settings, nextId >>

\* variant: the items of the store stay behind
Uncascaded_deleteStoreRow(d, storeId) ==
    LET keep(id) == id # storeId
    IN  [ d EXCEPT !.stores = SelectSeq(d.stores, keep) ]

\* .from('stores').delete().eq('id', storeId), with the ON DELETE CASCADE of
\* the store_id columns of inventory_items and order_items
DeleteStoreRow(d, storeId) ==
    LET keep(id) == id # storeId
        rest(table) == [ i \in { j \in DOMAIN table : table[j].store_id # storeId } |->
                           table[i] ]
    IN  [ d EXCEPT !.stores = SelectSeq(d.stores, keep),
                   !.inventory_items = rest(d.inventory_items),
                   !.order_items = rest(d.order_items) ]

\* useCloudStore.ts lines 181-199: the memory learns of the store by the next
\* fetchData
useCloudStore_addStore(ok) ==
    /\ impl = "cloud"
    /\ ~isLoading
    /\ nextId.store < MaxStores
    /\ LET id == nextId.store + 1
       IN  IF ok
           THEN /\ db' = [ db EXCEPT !.stores = Append(db.stores, id) ]
                /\ nextId' = [ nextId EXCEPT !.store = id ]
                /\ activeStoreId' = id
           ELSE UNCHANGED << db, nextId, activeStoreId >>
    /\ lastOp' = Op("addStore", ok)
    /\ faults' = Fault(ok)
    /\ unseen' = Unseen(db')
    /\ UNCHANGED << impl, inFlight, isLoading, stores, settings, settingsId,
                    localStorage >>

\* useCloudStore.ts lines 219-240: the store that becomes active is taken
\* from the stores of the memory
useCloudStore_deleteStore(storeId, ok) ==
    /\ impl = "cloud"
    /\ ~isLoading
    /\ Len(stores) > 1
    /\ \E k \in 1..Len(stores) : stores[k].id = storeId
    /\ LET keep(st) == st.id # storeId
           remaining == SelectSeq(stores, keep)
       IN  IF ok
           THEN /\ db' = DeleteStoreRow(db, storeId)
                /\ activeStoreId' =
                     IF activeStoreId = storeId
                     THEN (IF Len(remaining) > 0 THEN remaining[1].id ELSE NoStore)
                     ELSE activeStoreId
           ELSE UNCHANGED << db, activeStoreId >>
    /\ lastOp' = Op("deleteStore", ok)
    /\ faults' = Fault(ok)
    /\ unseen' = Unseen(db')
    /\ UNCHANGED << impl, inFlight, isLoading, stores, settings, settingsId,
                    localStorage, nextId >>

\* useSupabaseStore.ts lines 181-193
useSupabaseStore_addStore(ok) ==
    /\ impl = "supabase"
    /\ ~isLoading
    /\ nextId.store < MaxStores
    /\ LET id == nextId.store + 1
       IN  IF ok
           THEN /\ db' = [ db EXCEPT !.stores = Append(db.stores, id) ]
                /\ nextId' = [ nextId EXCEPT !.store = id ]
                /\ activeStoreId' = id
           ELSE UNCHANGED << db, nextId, activeStoreId >>
    /\ lastOp' = Op("addStore", ok)
    /\ faults' = Fault(ok)
    /\ unseen' = Unseen(db')
    /\ UNCHANGED << impl, inFlight, isLoading, stores, settings, settingsId,
                    localStorage >>

\* useSupabaseStore.ts lines 206-221
useSupabaseStore_deleteStore(storeId, ok) ==
    /\ impl = "supabase"
    /\ ~isLoading
    /\ Len(stores) > 1
    /\ \E k \in 1..Len(stores) : stores[k].id = storeId
    /\ LET keep(st) == st.id # storeId
           remaining == SelectSeq(stores, keep)
       IN  IF ok
           THEN /\ db' = DeleteStoreRow(db, storeId)
                /\ activeStoreId' =
                     IF activeStoreId = storeId
                     THEN (IF Len(remaining) > 0 THEN remaining[1].id ELSE NoStore)
                     ELSE activeStoreId
           ELSE UNCHANGED << db, activeStoreId >>
    /\ lastOp' = Op("deleteStore", ok)
    /\ faults' = Fault(ok)
    /\ unseen' = Unseen(db')
    /\ UNCHANGED << impl, inFlight, isLoading, stores, settings, settingsId,
                    localStorage, nextId >>

Call_deleteStore(storeId, ok) ==
    \/ useStore_deleteStore(storeId, ok)
    \/ useCloudStore_deleteStore(storeId, ok)
    \/ useSupabaseStore_deleteStore(storeId, ok)

\* pages/Index.tsx lines 46-54: the sidebar, over stores that hold items or
\* get them
StoreSpec ==
    /\ Init \/ StockedInit
    /\ [][ \/ fetchData
           \/ \E id \in 1..MaxStores, ok \in Outcomes : Call_setActiveStoreId(id, ok)
           \/ addInventoryItem
           \/ addOrderItem
           \/ \E ok \in Outcomes :
                \/ useStore_addStore(ok)
                \/ useCloudStore_addStore(ok)
                \/ useSupabaseStore_addStore(ok)
           \/ \E storeId \in 1..MaxStores, ok \in Outcomes :
                Call_deleteStore(storeId, ok) ]_vars

\* ------------------------------------------------------------------------
\* C21: after deleteStore(s) has succeeded no stored inventory item and no
\* stored order belongs to s, and every item of every other store is stored
\* as it was, in the store it was in.
\* ------------------------------------------------------------------------
C21_DeleteStoreDeletesItsItems ==
    [][ \A s \in 1..MaxStores :
          Call_deleteStore(s, TRUE) =>
            /\ \A i \in DOMAIN StoredInventory' : StoreOfInventory(i)' # s
            /\ \A i \in DOMAIN StoredOrders' : StoreOfOrder(i)' # s
            /\ DOMAIN StoredInventory' =
                 { i \in DOMAIN StoredInventory : StoreOfInventory(i) # s }
            /\ DOMAIN StoredOrders' =
                 { i \in DOMAIN StoredOrders : StoreOfOrder(i) # s }
            /\ \A i \in DOMAIN StoredInventory' :
                  /\ StoredInventory'[i] = StoredInventory[i]
                  /\ i \in DOMAIN StoredInventory =>
                        StoreOfInventory(i)' = StoreOfInventory(i)
            /\ \A i \in DOMAIN StoredOrders' :
                  /\ StoredOrders'[i] = StoredOrders[i]
                  /\ StoreOfOrder(i)' = StoreOfOrder(i) ]_vars

\* the second store of the stocked installation has been deleted with its
\* item and its order, the items of the first are there
C21_Witness ==
    /\ lastOp = Op("deleteStore", TRUE)
    /\ DOMAIN StoredInventory = { 1, 2 }
    /\ DOMAIN StoredOrders = { 1 }

\* ------------------------------------------------------------------------
\* C29: once the page has loaded, activeStoreId is null or the id of a store
\* of the stores in memory.
\* ------------------------------------------------------------------------
C29_ActiveStoreIsNullOrPresent ==
    ~isLoading =>
        \/ activeStoreId = NoStore
        \/ \E k \in 1..Len(stores) : stores[k].id = activeStoreId

PersistedSettings == IF impl = "local" THEN localStorage.settings ELSE db.settings

C23_ItemOperationsKeepSettings ==
    [][ lastOp'.name \in { "addInventoryItem", "updateInventoryItem",
                           "deleteInventoryItem", "addOrderItem", "updateOrderItem",
                           "deleteOrderItem", "recalculateAllPrices" }
        => /\ settings' = settings
           /\ PersistedSettings' = PersistedSettings ]_vars

\* a sweep has run over a stored item under settings that are not the
\* defaults
C23_Witness ==
    /\ lastOp = Op("recalculateAllPrices", TRUE)
    /\ settings # defaultSettings
    /\ DOMAIN StoredInventory # {}

\* ------------------------------------------------------------------------
\* C28: when updateSettings of a cloud hook has finished without an error
\* shown to the user, a settings row of the database holds the settings of
\* the memory, also when the hook held no settingsId at the call.
\* ------------------------------------------------------------------------
C28_UpdateSettingsPersistsMemory ==
    [][ ( /\ impl # "local"
          /\ lastOp'.name = "updateSettings"
          /\ lastOp'.ok )
        => \E r \in 1..Len(db'.settings) :
              toFrontendSettings(db'.settings[r]) = settings' ]_vars

\* ------------------------------------------------------------------------
\* The item cells and delete buttons of the tables, over the stocked
\* installation
\* ------------------------------------------------------------------------
\* the partial updates made in a run
StockedUpdates ==
    [ inventory |-> { [ quantity |-> 2 ], [ costPriceCNY |-> 10000 ] },
      orders |-> { [ actualPayment |-> 4000 ], [ costPriceCNY |-> 5000 ] } ]

ItemsSpec ==
    /\ StockedInit
    /\ [][ \/ fetchData
           \/ setActiveStoreId
           \/ \E itemId \in DOMAIN StockedDb.inventory_items,
                 updates \in StockedUpdates.inventory, ok \in Outcomes :
                Call_updateInventoryItem(itemId, updates, ok)
           \/ \E itemId \in DOMAIN StockedDb.inventory_items, ok \in Outcomes :
                Call_deleteInventoryItem(itemId, ok)
           \/ \E itemId \in DOMAIN StockedDb.order_items,
                 updates \in StockedUpdates.orders, ok \in Outcomes :
                Call_updateOrderItem(itemId, updates, ok)
           \/ \E itemId \in DOMAIN StockedDb.order_items, ok \in Outcomes :
                Call_deleteOrderItem(itemId, ok) ]_vars

\* every stored item but inventory item inv and order ord is stored as it
\* was and where it was, and no item has appeared
OthersKept(inv, ord) ==
    /\ DOMAIN StoredInventory' \subseteq DOMAIN StoredInventory
    /\ DOMAIN StoredOrders' \subseteq DOMAIN StoredOrders
    /\ \A j \in DOMAIN StoredInventory \ inv :
          /\ j \in DOMAIN StoredInventory'
          /\ StoredInventory'[j] = StoredInventory[j]
          /\ StoreOfInventory(j)' = StoreOfInventory(j)
    /\ \A j \in DOMAIN StoredOrders \ ord :
          /\ j \in DOMAIN StoredOrders'
          /\ StoredOrders'[j] = StoredOrders[j]
          /\ StoreOfOrder(j)' = StoreOfOrder(j)

\* ------------------------------------------------------------------------
\* C30: updateInventoryItem, deleteInventoryItem, updateOrderItem and
\* deleteOrderItem on id i change only the item i: every other item is stored
\* as it was, an update keeps the number of items, a delete of an id that is
\* there takes one item away, and an id that is not there changes nothing.
\* ------------------------------------------------------------------------
C30_ItemOperationsTouchOneItem ==
    [][ /\ \A i \in DOMAIN StockedDb.inventory_items, ok \in BOOLEAN :
            /\ ( /\ lastOp'.name = "updateInventoryItem"
                 /\ \E updates \in StockedUpdates.inventory :
                       Call_updateInventoryItem(i, updates, ok) )
               => /\ OthersKept({ i }, {})
                  /\ DOMAIN StoredInventory' = DOMAIN StoredInventory
                  /\ i \in DOMAIN StoredInventory =>
                        StoreOfInventory(i)' = StoreOfInventory(i)
            /\ ( /\ lastOp'.name = "deleteInventoryItem"
                 /\ Call_deleteInventoryItem(i, ok) )
               => /\ OthersKept({ i }, {})
                  /\ (ok \/ impl = "local") => i \notin DOMAIN StoredInventory'
                  /\ i \notin DOMAIN StoredInventory => StoredInventory' = StoredInventory
        /\ \A i \in DOMAIN StockedDb.order_items, ok \in BOOLEAN :
            /\ ( /\ lastOp'.name = "updateOrderItem"
                 /\ \E updates \in StockedUpdates.orders :
                       Call_updateOrderItem(i, updates, ok) )
               => /\ OthersKept({}, { i })
                  /\ DOMAIN StoredOrders' = DOMAIN StoredOrders
                  /\ i \in DOMAIN StoredOrders =>
                        StoreOfOrder(i)' = StoreOfOrder(i)
            /\ ( /\ lastOp'.name = "deleteOrderItem"
                 /\ Call_deleteOrderItem(i, ok) )
               => /\ OthersKept({}, { i })
                  /\ (ok \/ impl = "local") => i \notin DOMAIN StoredOrders'
                  /\ i \notin DOMAIN StoredOrders => StoredOrders' = StoredOrders ]_vars

\* C30 as amended: the same, where useStore takes an item away only when the
\* id is that of an item of the active store (a cloud hook: whenever its
\* write succeeds).
C30_ItemOperationsTouchOneItemOfActiveStore ==
    [][ /\ \A i \in DOMAIN StockedDb.inventory_items, ok \in BOOLEAN :
            /\ ( /\ lastOp'.name = "updateInventoryItem"
                 /\ \E updates \in StockedUpdates.inventory :
                       Call_updateInventoryItem(i, updates, ok) )
               => /\ OthersKept({ i }, {})
                  /\ DOMAIN StoredInventory' = DOMAIN StoredInventory
                  /\ i \in DOMAIN StoredInventory =>
                        StoreOfInventory(i)' = StoreOfInventory(i)
            /\ ( /\ lastOp'.name = "deleteInventoryItem"
                 /\ Call_deleteInventoryItem(i, ok) )
               => /\ OthersKept({ i }, {})
                  /\ (IF impl = "local" THEN ShownInventory(i) ELSE ok)
                        => i \notin DOMAIN StoredInventory'
                  /\ i \notin DOMAIN StoredInventory => StoredInventory' = StoredInventory
        /\ \A i \in DOMAIN StockedDb.order_items, ok \in BOOLEAN :
            /\ ( /\ lastOp'.name = "updateOrderItem"
                 /\ \E updates \in StockedUpdates.orders :
                       Call_updateOrderItem(i, updates, ok) )
               => /\ OthersKept({}, { i })
                  /\ DOMAIN StoredOrders' = DOMAIN StoredOrders
                  /\ i \in DOMAIN StoredOrders =>
                        StoreOfOrder(i)' = StoreOfOrder(i)
            /\ ( /\ lastOp'.name = "deleteOrderItem"
                 /\ Call_deleteOrderItem(i, ok) )
               => /\ OthersKept({}, { i })
                  /\ (IF impl = "local" THEN ShownOrder(i) ELSE ok)
                        => i \notin DOMAIN StoredOrders'
                  /\ i \notin DOMAIN StoredOrders => StoredOrders' = StoredOrders ]_vars

\* the quantity of the first item has been updated among the three items
\* stored, and an order has been deleted before
C30_Witness ==
    /\ lastOp = Op("updateInventoryItem", TRUE)
    /\ DOMAIN StoredInventory = { 1, 2, 3 }
    /\ StoredInventory[1].quantity = 2
    /\ DOMAIN StoredOrders = { 2 }

\* ------------------------------------------------------------------------
\* recalculateAllPrices of the cloud hooks, one awaited write at a time
\* ------------------------------------------------------------------------
\* the ids of S in the order of the array that holds the items
RECURSIVE InOrder(_)
InOrder(S) ==
    IF S = {} THEN << >>
    ELSE LET first == CHOOSE i \in S : \A j \in S : i <= j
         IN  << first >> \o InOrder(S \ { first })

\* for (const store of stores) { for (const item of store.inventory) ...;
\* for (const order of store.orders) ... }: the writes of the sweep from
\* store k on, in the order of the loops; inv and ord give the columns of
\* the items that are written
RECURSIVE SweepWrites(_, _, _, _)
SweepWrites(ss, k, inv, ord) ==
    IF k > Len(ss) THEN << >>
    ELSE LET items == InOrder(DOMAIN ss[k].inventory \cap DOMAIN inv)
             orders == InOrder(DOMAIN ss[k].orders \cap DOMAIN ord)
         IN  [ n \in 1..Len(items) |->
                 [ table |-> "inventory_items", id |-> items[n],
                   values |-> inv[items[n]] ] ]
             \o [ n \in 1..Len(orders) |->
                    [ table |-> "order_items", id |-> orders[n],
                      values |-> ord[orders[n]] ] ]
             \o SweepWrites(ss, k + 1, inv, ord)

\* useCloudStore lines 449-451, useSupabaseStore lines 402-403: the call.
\* stores and settings are those of the render the callback was made in, so
\* every write of the sweep is fixed by the memory at the call: useCloudStore
\* writes the items whose values differ, useSupabaseStore every item.
recalculateAllPrices_call ==
    /\ impl \in { "cloud", "supabase" }
    /\ ~isLoading
    /\ unseen < MaxUnseen
    /\ inFlight.sweep = << >>
    /\ inFlight' =
         [ inFlight EXCEPT !.sweep =
             IF impl = "cloud"
             THEN SweepWrites(stores, 1,
                    [ i \in Cloud_inventoryWrites(stores, settings) |->
                        Cloud_recalculatedInventory(AllInventory(stores)[i], settings) ],
                    [ i \in Cloud_orderWrites(stores, settings) |->
                        Cloud_recalculatedOrder(AllOrders(stores)[i], settings) ])
             ELSE SweepWrites(stores, 1,
                    [ i \in DOMAIN AllInventory(stores) |->
                        Supabase_recalculatedInventory(AllInventory(stores)[i], settings) ],
                    [ i \in DOMAIN AllOrders(stores) |->
                        Supabase_recalculatedOrder(AllOrders(stores)[i], settings) ]) ]
    /\ lastOp' = Op("recalculateAllPrices: call", TRUE)
    /\ UNCHANGED << impl, stores, activeStoreId, settings, settingsId, isLoading,
                    localStorage, db, nextId, faults, unseen >>

\* useCloudStore lines 456-460 and 469-476, useSupabaseStore lines 407-410
\* and 418-423: the next awaited update; its error is not looked at
recalculateAllPrices_write(ok) ==
    /\ inFlight.sweep # << >>
    /\ LET write == Head(inFlight.sweep)
       IN  db' = IF ok
                 THEN [ db EXCEPT ![write.table] = UpdateRow(@, write.id, write.values) ]
                 ELSE db
    /\ inFlight' = [ inFlight EXCEPT !.sweep = Tail(@) ]
    /\ faults' = Fault(ok)
    /\ unseen' = Unseen(db')
    /\ lastOp' = Op("recalculateAllPrices: write", ok)
    /\ UNCHANGED << impl, stores, activeStoreId, settings, settingsId, isLoading,
                    localStorage, nextId >>

\* a sweep after a change of the exchange rate; that of a cloud hook may stop
\* between two of its writes (the page is closed or reloaded), that of
\* useStore is one setStores; no item is edited
SweepSpec ==
    /\ StockedInit
    /\ [][ \/ fetchData
           \/ \E saved \in Outcomes : useStore_recalculateAllPrices(saved)
           \/ \E exchangeRate \in Inputs.exchangeRate, ok \in Outcomes :
                 Call_updateSettings([ exchangeRate |-> exchangeRate ], ok)
           \/ recalculateAllPrices_call
           \/ \E ok \in Outcomes : recalculateAllPrices_write(ok)
           \/ /\ inFlight.sweep # << >>
              /\ inFlight' = [ inFlight EXCEPT !.sweep = << >> ]
              /\ lastOp' = Op("recalculateAllPrices: stop", TRUE)
              /\ UNCHANGED << impl, stores, activeStoreId, settings, settingsId,
                              isLoading, localStorage, db, nextId, faults, unseen >>
       ]_vars

\* the settings before and after the changes of SweepSpec: the defaults
\* with one exchange rate or the other
SweepSettings ==
    { Spread(defaultSettings, [ exchangeRate |-> r ]) : r \in Inputs.exchangeRate }

OtherSession_update(table, id, updates) ==
    /\ impl \in { "cloud", "supabase" }
    /\ db.settings # << >>
    /\ LET s == toFrontendSettings(db.settings[1])
           values ==
             CASE table = "inventory_items" ->
                    IF impl = "cloud" THEN Cloud_inventoryDbUpdates(updates, s)
                    ELSE Supabase_inventoryUpdateData(updates, s)
               [] table = "order_items" ->
                    IF impl = "cloud"
                    THEN Cloud_orderDbUpdates(updates,
                                              { toFrontendOrder(db.order_items[id]) }, s)
                    ELSE Supabase_orderUpdateData(updates,
                                                  toFrontendOrder(db.order_items[id]), s)
               [] table = "settings" ->
                    IF impl = "cloud" THEN Cloud_settingsDbUpdates(Spread(s, updates))
                    ELSE Supabase_settingsUpdateData(updates)
       IN  /\ table # "settings" => id \in DOMAIN db[table]
           /\ db' = [ db EXCEPT ![table] =
                        IF table = "settings" THEN UpdateSettingsRow(@, id, values)
                        ELSE UpdateRow(@, id, values) ]
    /\ db' # db
    /\ lastOp' = Op("another session", TRUE)
    /\ UNCHANGED << impl, stores, activeStoreId, settings, settingsId, isLoading,
                    localStorage, nextId, faults, unseen, inFlight >>

\* useCloudStore lines 143-177, useSupabaseStore lines 152-175: the initial
\* load and every realtime notification call fetchData, whether or not an
\* earlier call is still under way.  The selects of the call read the
\* database as it is now.
fetchData_call ==
    /\ impl \in { "cloud", "supabase" }
    /\ LET under_way == IF \A n \in 1..Len(inFlight.fetches) : inFlight.fetches[n].resolved
                        THEN << >> ELSE inFlight.fetches
       IN  /\ Len(under_way) < MaxFetches
           /\ inFlight' = [ inFlight EXCEPT !.fetches =
                              Append(under_way, [ response |-> db, resolved |-> FALSE ]) ]
    /\ lastOp' = Op("fetchData: call", TRUE)
    /\ UNCHANGED << impl, stores, activeStoreId, settings, settingsId, isLoading,
                    localStorage, db, nextId, faults, unseen >>

\* useCloudStore lines 51-53 and 121-130, useSupabaseStore lines 118-135: a
\* call under way gets its rows and sets the memory from them; nothing
\* tells which call was the later.  (The rows hold a settings row and a
\* store; no select fails.)
fetchData_resolve(n) ==
    /\ n \in 1..Len(inFlight.fetches)
    /\ ~inFlight.fetches[n].resolved
    /\ LET d == inFlight.fetches[n].response
       IN  /\ d.settings # << >> /\ Len(d.stores) > 0
           /\ settings' = toFrontendSettings(d.settings[1])
           /\ settingsId' = d.settings[1].id
           /\ stores' = StoresWithData(d)
           /\ activeStoreId' =
                IF impl = "cloud"
                THEN Cloud_activeAfterFetch(activeStoreId, StoresWithData(d))
                ELSE IF activeStoreId = NoStore THEN d.stores[1] ELSE activeStoreId
           /\ unseen' = IF d = db THEN 0 ELSE unseen
    /\ inFlight' = [ inFlight EXCEPT !.fetches[n].resolved = TRUE ]
    /\ isLoading' = FALSE
    /\ lastOp' = Op("fetchData: response", TRUE)
    /\ UNCHANGED << impl, localStorage, db, nextId, faults >>

\* overlapping fetchData calls of a cloud hook while another session edits
\* the cost of the first item and the exchange rate
FetchSpec ==
    /\ StockedInit
    /\ [][ \/ fetchData_call
           \/ \E n \in 1..MaxFetches : fetchData_resolve(n)
           \/ \E c \in Inputs.costPriceCNY :
                 OtherSession_update("inventory_items", 1, [ costPriceCNY |-> c ])
           \/ \E r \in Inputs.exchangeRate :
                 OtherSession_update("settings", 1, [ exchangeRate |-> r ])
       ]_vars

\* C26: when the last of the overlapping fetchData calls has resolved, the
\* stores and the settings of the memory are those that the call issued last
\* returned.
C26_LastIssuedFetchWins ==
    [][ ( /\ lastOp'.name = "fetchData: response"
          /\ \A n \in 1..Len(inFlight'.fetches) : inFlight'.fetches[n].resolved )
        => LET last == inFlight'.fetches[Len(inFlight'.fetches)].response
           IN  /\ stores' = StoresWithData(last)
               /\ settings' = toFrontendSettings(last.settings[1]) ]_vars

\* a change of the exchange rate and the sweep after it, with another
\* session that edits a cost or a payment while the sweep is in progress
RaceSpec ==
    /\ StockedInit
    /\ [][ \/ fetchData
           \/ \E r \in Inputs.exchangeRate, ok \in Outcomes :
                 Call_updateSettings([ exchangeRate |-> r ], ok)
           \/ recalculateAllPrices_call
           \/ \E ok \in Outcomes : recalculateAllPrices_write(ok)
           \/ /\ inFlight.sweep # << >>
              /\ \/ OtherSession_update("inventory_items", 3, [ costPriceCNY |-> 5000 ])
                 \/ OtherSession_update("order_items", 1, [ actualPayment |-> 4000 ])
       ]_vars

\* the settings form of this session, every write of which succeeds, while
\* another session changes the exchange rate
SettingsRaceSpec ==
    /\ StockedInit
    /\ [][ \/ fetchData
           \/ \E newSettings \in SettingsUpdates \cup { [ targetProfit |-> 7000 ] } :
                 Call_updateSettings(newSettings, TRUE)
           \/ \E r \in Inputs.exchangeRate :
                 OtherSession_update("settings", 1, [ exchangeRate |-> r ])
       ]_vars

\* C24: the sweep never writes a derived value computed from a source value
\* that has since been overwritten: the row a write of the sweep has just
\* changed holds the selling price of its persisted cost (under settings of
\* the run), or the convertedWithShipping of its persisted cost together
\* with profit = persisted actualPayment - convertedWithShipping, also when
\* another session has edited the cost or the payment while the sweep was in
\* progress.
C24_SweepWritesFromPersistedSources ==
    [][ lastOp' = Op("recalculateAllPrices: write", TRUE)
        => LET write == Head(inFlight.sweep)
               row == db'[write.table][write.id]
           IN  write.id \in DOMAIN db'[write.table]
               => IF write.table = "inventory_items"
                  THEN \E s \in SweepSettings :
                          row.selling_price_jpy
                            = calculateSellingPrice(row.cost_price_cny, s)
                  ELSE /\ \E r \in Inputs.exchangeRate :
                            row.converted_with_shipping
                              = calculateConvertedWithShipping(row.cost_price_cny, r)
                       /\ row.profit = calculateProfit(row.actual_payment,
                                                       row.converted_with_shipping)
      ]_vars

\* C27: an updateSettings that has written changes only the persisted
\* fields named in the call: every other field keeps the value persisted
\* before the call, also one that another session has changed since this
\* session loaded the settings.
C27_UpdateSettingsWritesNamedFieldsOnly ==
    [][ \A newSettings \in SettingsUpdates \cup { [ targetProfit |-> 7000 ] } :
          ( /\ lastOp' = Op("updateSettings", TRUE)
            /\ Call_updateSettings(newSettings, TRUE) )
          => \A field \in DOMAIN defaultSettings \ DOMAIN newSettings :
                IF impl = "local"
                THEN localStorage'.settings[field] = localStorage.settings[field]
                ELSE db.settings # << >>
                     => toFrontendSettings(db'.settings[1])[field]
                          = toFrontendSettings(db.settings[1])[field]
      ]_vars

====
